---- MODULE Spec2Model ----
(***************************************************************************)
(* companion-pack-protocol: the NDJSON control protocol between the daemon *)
(* and a gamepack.  The model covers the main loop run_gamepack, the       *)
(* dispatch engine dispatch_command, the parsing of a command line, and    *)
(* the emission path emit_match_data guarded by STDOUT_LOCK.               *)
(***************************************************************************)
EXTENDS Integers, Sequences, FiniteSets, TLC

(* ------------------------------------------------------------------ *)
(* Bounds of the model                                                 *)
(* ------------------------------------------------------------------ *)

\* Number of input lines the daemon sends before the model stops reading.
MaxLines == 2

\* The longest text given to the JSON string writer.
MaxText == 2

\* Number of concurrent producers, each calling emit_match_data once.
NumProducers == 2

(* ------------------------------------------------------------------ *)
(* version.rs                                                          *)
(* ------------------------------------------------------------------ *)

PROTOCOL_VERSION == 1

(* ------------------------------------------------------------------ *)
(* Option<T>: None is the empty set, Some(x) is {x}                    *)
(* ------------------------------------------------------------------ *)

None == {}

Some(x) == {x}

(* ------------------------------------------------------------------ *)
(* JSON values as they appear in an input line                         *)
(* ------------------------------------------------------------------ *)

Str(s) == [t |-> "str", s |-> s, n |-> 0]

Num(n) == [t |-> "num", s |-> "", n |-> n]

Null == [t |-> "null", s |-> "", n |-> 0]

Obj(s) == [t |-> "obj", s |-> s, n |-> 0]

Arr(s) == [t |-> "arr", s |-> s, n |-> 0]

Bool(b) == [t |-> "bool", s |-> "", n |-> IF b THEN 1 ELSE 0]

(* ------------------------------------------------------------------ *)
(* JSON documents as trees: the function from the path of each member  *)
(* to its value.  The root is at the empty path; an object or an array  *)
(* of typed members has the value Struct or List(n) at its own path,    *)
(* and serde_json::Value payloads the engine never looks into are the   *)
(* single value Obj(text).                                             *)
(* ------------------------------------------------------------------ *)

Struct == Obj("")

List(n) == [t |-> "arr", s |-> "", n |-> n]

\* A document that is one value.
Leaf(v) == << >> :> v

\* No document: what a skipped member contributes to its object.
Omitted == [p \in {} |-> Null]

\* The document tree as the member name of an object.
At(name, tree) == [p \in {<<name>> \o q : q \in DOMAIN tree} |-> tree[Tail(p)]]

\* The member name of the document tree, as a document of its own.
Sub(tree, name) ==
    [q \in {Tail(p) : p \in {p \in DOMAIN tree : Len(p) > 0 /\ p[1] = name}} |->
        tree[<<name>> \o q]]

\* The names of the members of the object at the root of tree.
Members(tree) == {p[1] : p \in {p \in DOMAIN tree : Len(p) = 1}}

\* The position of an array element as a member name.
Index(i) == <<"0", "1", "2">>[i]

\* The array of the documents of seq.
Array(seq) ==
    Leaf(List(Len(seq))) @@
    [p \in UNION {{<<Index(i)>> \o q : q \in DOMAIN seq[i]} : i \in 1..Len(seq)} |->
        seq[(CHOOSE i \in 1..Len(seq) : Index(i) = p[1])][Tail(p)]]

\* The value inside Some(x).
Unwrap(opt) == CHOOSE x \in opt : TRUE

(* ------------------------------------------------------------------ *)
(* commands.rs: GamepackCommand                                        *)
(* ------------------------------------------------------------------ *)

\* The variants of the enum, in declaration order.
CommandVariants ==
    <<"Init", "DetectRunning", "GetStatus", "PollEvents", "GetLiveData",
      "SessionStart", "SessionEnd", "Shutdown", "ResolveEventIcon",
      "IsMatchInProgress", "GetMatchTimeline", "GetSampleMatchData">>

\* #[serde(tag = "type", rename_all = "snake_case")]: the discriminant of
\* each variant on the wire.
CommandTag(v) ==
    CASE v = "Init" -> "init"
      [] v = "DetectRunning" -> "detect_running"
      [] v = "GetStatus" -> "get_status"
      [] v = "PollEvents" -> "poll_events"
      [] v = "GetLiveData" -> "get_live_data"
      [] v = "SessionStart" -> "session_start"
      [] v = "SessionEnd" -> "session_end"
      [] v = "Shutdown" -> "shutdown"
      [] v = "ResolveEventIcon" -> "resolve_event_icon"
      [] v = "IsMatchInProgress" -> "is_match_in_progress"
      [] v = "GetMatchTimeline" -> "get_match_timeline"
      [] v = "GetSampleMatchData" -> "get_sample_match_data"

\* A command value.  Fields a variant does not have keep their default.
Command(v, rid, ctx, key, sub, mid, types, lim) ==
    [variant |-> v, request_id |-> rid, context |-> ctx, event_key |-> key,
     subpack |-> sub, external_match_id |-> mid, entry_types |-> types,
     limit |-> lim]

\* A request_id that loses the id of one variant.
request_id_lost(cmd) ==
    IF cmd.variant = "SessionEnd" THEN "" ELSE cmd.request_id

\* GamepackCommand::request_id: the request_id of any variant.
request_id(cmd) ==
    CASE cmd.variant = "Init" -> cmd.request_id
      [] cmd.variant = "DetectRunning" -> cmd.request_id
      [] cmd.variant = "GetStatus" -> cmd.request_id
      [] cmd.variant = "PollEvents" -> cmd.request_id
      [] cmd.variant = "GetLiveData" -> cmd.request_id
      [] cmd.variant = "SessionStart" -> cmd.request_id
      [] cmd.variant = "SessionEnd" -> cmd.request_id
      [] cmd.variant = "Shutdown" -> cmd.request_id
      [] cmd.variant = "ResolveEventIcon" -> cmd.request_id
      [] cmd.variant = "IsMatchInProgress" -> cmd.request_id
      [] cmd.variant = "GetMatchTimeline" -> cmd.request_id
      [] cmd.variant = "GetSampleMatchData" -> cmd.request_id

(* ------------------------------------------------------------------ *)
(* Deserialization of one input line into a GamepackCommand            *)
(* ------------------------------------------------------------------ *)

ParseErr == [ok |-> FALSE, cmd |-> Command("", "", Null, "", 0, "", None, None)]

ParseOk(c) == [ok |-> TRUE, cmd |-> c]

\* A required String field: present and a JSON string.
HasStr(o, f) == f \in DOMAIN o /\ o[f].t = "str"

\* A required u8 field: present, a JSON number, and in 0..255.
HasU8(o, f) == f \in DOMAIN o /\ o[f].t = "num" /\ o[f].n >= 0 /\ o[f].n <= 255

\* A required serde_json::Value field: present, any JSON value (null included).
HasValue(o, f) == f \in DOMAIN o

\* An Option<Vec<String>> field: absent, null, or an array.
OptArrOk(o, f) == f \notin DOMAIN o \/ o[f].t \in {"null", "arr"}

OptArr(o, f) == IF f \in DOMAIN o /\ o[f].t = "arr" THEN Some(o[f].s) ELSE None

\* An Option<u32> field: absent, null, or a non-negative number.
OptU32Ok(o, f) ==
    f \notin DOMAIN o \/ o[f].t = "null" \/ (o[f].t = "num" /\ o[f].n >= 0)

OptU32(o, f) == IF f \in DOMAIN o /\ o[f].t = "num" THEN Some(o[f].n) ELSE None

\* The variant whose discriminant is tag, or "" when there is none.
VariantOfTag(tag) ==
    IF \E i \in 1..Len(CommandVariants) : CommandTag(CommandVariants[i]) = tag
    THEN LET i == CHOOSE i \in 1..Len(CommandVariants) :
                      CommandTag(CommandVariants[i]) = tag
         IN CommandVariants[i]
    ELSE ""

\* The fields of the variant v read out of the JSON object o.
ParseVariant(v, o) ==
    IF ~HasStr(o, "request_id") THEN ParseErr
    ELSE LET rid == o["request_id"].s IN
      CASE v \in {"Init", "DetectRunning", "GetStatus", "PollEvents",
                  "GetLiveData", "SessionStart", "Shutdown"} ->
               ParseOk(Command(v, rid, Null, "", 0, "", None, None))
        [] v = "SessionEnd" ->
               IF HasValue(o, "context")
               THEN ParseOk(Command(v, rid, o["context"], "", 0, "", None, None))
               ELSE ParseErr
        [] v = "ResolveEventIcon" ->
               IF HasStr(o, "event_key")
               THEN ParseOk(Command(v, rid, Null, o["event_key"].s, 0, "", None, None))
               ELSE ParseErr
        [] v = "IsMatchInProgress" ->
               IF HasU8(o, "subpack") /\ HasStr(o, "external_match_id")
               THEN ParseOk(Command(v, rid, Null, "", o["subpack"].n,
                                    o["external_match_id"].s, None, None))
               ELSE ParseErr
        [] v = "GetMatchTimeline" ->
               IF /\ HasU8(o, "subpack") /\ HasStr(o, "external_match_id")
                  /\ OptArrOk(o, "entry_types") /\ OptU32Ok(o, "limit")
               THEN ParseOk(Command(v, rid, Null, "", o["subpack"].n,
                                    o["external_match_id"].s,
                                    OptArr(o, "entry_types"), OptU32(o, "limit")))
               ELSE ParseErr
        [] v = "GetSampleMatchData" ->
               IF HasU8(o, "subpack")
               THEN ParseOk(Command(v, rid, Null, "", o["subpack"].n, "", None, None))
               ELSE ParseErr

\* serde_json::from_str::<GamepackCommand>(&line): a line that is not a JSON
\* object, has no string "type", an unknown discriminant, or a missing or
\* ill-typed field of its variant is an error.
from_str(line) ==
    IF line.k # "json" THEN ParseErr
    ELSE IF ~HasStr(line.o, "type") THEN ParseErr
    ELSE IF VariantOfTag(line.o["type"].s) = "" THEN ParseErr
    ELSE ParseVariant(VariantOfTag(line.o["type"].s), line.o)

\* GamepackCommand: Serialize (what the daemon writes on a line): the
\* object of the members of c; entry_types and limit are skipped when None.
command_to_json(c) ==
    LET head == ("type" :> Str(CommandTag(c.variant)))
                  @@ ("request_id" :> Str(c.request_id))
    IN
    CASE c.variant = "SessionEnd" -> head @@ ("context" :> c.context)
      [] c.variant = "ResolveEventIcon" -> head @@ ("event_key" :> Str(c.event_key))
      [] c.variant = "IsMatchInProgress" ->
           head @@ ("subpack" :> Num(c.subpack))
                @@ ("external_match_id" :> Str(c.external_match_id))
      [] c.variant = "GetMatchTimeline" ->
           head @@ ("subpack" :> Num(c.subpack))
                @@ ("external_match_id" :> Str(c.external_match_id))
                @@ (IF c.entry_types = None THEN [f \in {} |-> Null]
                    ELSE ("entry_types" :> Arr(Unwrap(c.entry_types))))
                @@ (IF c.limit = None THEN [f \in {} |-> Null]
                    ELSE ("limit" :> Num(Unwrap(c.limit))))
      [] c.variant = "GetSampleMatchData" -> head @@ ("subpack" :> Num(c.subpack))
      [] OTHER -> head

(* ------------------------------------------------------------------ *)
(* The input lines the daemon may send                                 *)
(* ------------------------------------------------------------------ *)

RequestIds == {"r1", "r2"}

EmptyObj == [f \in {} |-> Null]

\* A line of text that is one JSON object.
Json(o) == [k |-> "json", o |-> o]

\* The minimal well-formed object of variant v with request_id rid.
WellFormed(v, rid) ==
    LET head == [type |-> Str(CommandTag(v)), request_id |-> Str(rid)] IN
    CASE v = "SessionEnd" ->
             [type |-> head.type, request_id |-> head.request_id,
              context |-> IF rid = "r1" THEN Obj("{\"started\":true}") ELSE Null]
      [] v = "ResolveEventIcon" ->
             [type |-> head.type, request_id |-> head.request_id,
              event_key |-> Str(IF rid = "r1" THEN "ChampionKill" ELSE "DragonKill")]
      [] v = "IsMatchInProgress" ->
             [type |-> head.type, request_id |-> head.request_id,
              subpack |-> Num(IF rid = "r1" THEN 0 ELSE 255),
              external_match_id |-> Str("m1")]
      [] v = "GetMatchTimeline" ->
             IF rid = "r1"
             THEN [type |-> head.type, request_id |-> head.request_id,
                   subpack |-> Num(0), external_match_id |-> Str("m1")]
             ELSE [type |-> head.type, request_id |-> head.request_id,
                   subpack |-> Num(1), external_match_id |-> Str("m2"),
                   entry_types |-> Arr("[\"event\"]"), limit |-> Num(10)]
      [] v = "GetSampleMatchData" ->
             [type |-> head.type, request_id |-> head.request_id,
              subpack |-> Num(IF rid = "r1" THEN 0 ELSE 1)]
      [] OTHER -> head

\* Lines that parse as a command: every variant with every request_id.
ValidLines ==
    { Json(WellFormed(CommandVariants[i], rid)) :
        i \in 1..Len(CommandVariants), rid \in RequestIds }

\* Non-blank lines that do not parse as a command.
BadLines ==
    { [k |-> "text", o |-> EmptyObj],
      Json([type |-> Str("bogus"), request_id |-> Str("r1")]),
      Json([request_id |-> Str("r1")]),
      Json([type |-> Str("init")]),
      Json([type |-> Str("shutdown")]),
      Json([type |-> Str("get_status"), request_id |-> Num(7)]),
      Json([type |-> Str("session_end"), request_id |-> Str("r1")]),
      Json([type |-> Str("is_match_in_progress"), request_id |-> Str("r2"),
            subpack |-> Num(256), external_match_id |-> Str("m1")]),
      Json([type |-> Str("get_sample_match_data"), request_id |-> Str("r2"),
            subpack |-> Num(-1)]),
      Json([type |-> Str("get_match_timeline"), request_id |-> Str("r1"),
            subpack |-> Num(256), external_match_id |-> Str("m1")]) }

\* Lines that are empty after trim().
BlankLines == { [k |-> "empty", o |-> EmptyObj], [k |-> "spaces", o |-> EmptyObj] }

\* A line whose read fails (not valid UTF-8): lines() yields Err for it.
ErrLines == { [k |-> "nonutf8", o |-> EmptyObj] }

Lines == ValidLines \cup BadLines \cup BlankLines \cup ErrLines

\* The input alphabet of the whole system (loop and producers together).
CoreLines ==
    { Json(WellFormed(v, "r1")) : v \in {"GetStatus", "Shutdown"} }
      \cup { [k |-> "text", o |-> EmptyObj] } \cup ErrLines

NoLine == [k |-> "none", o |-> EmptyObj]

\* l.trim().is_empty()
trim_is_empty(line) == line.k \in {"empty", "spaces"}

(* ------------------------------------------------------------------ *)
(* responses.rs: GamepackResponse                                      *)
(* ------------------------------------------------------------------ *)

ResponseVariants ==
    {"Initialized", "RunningStatus", "GameStatus", "Events", "LiveData",
     "SessionStarted", "SessionEnded", "Error", "ShutdownComplete",
     "EventIconResolved", "MatchInProgressStatus", "MatchTimeline",
     "WriteMatchData", "SampleMatchData"}

\* GamepackResponse::error(request_id, message): an Error with no code.
error(rid, message) ==
    [variant |-> "Error", request_id |-> rid, message |-> message, code |-> None]

\* A request_id() that answers for WriteMatchData with the id of the match.
response_request_id_match(r) ==
    IF r.variant = "WriteMatchData" THEN r.message.external_match_id ELSE r.request_id

\* GamepackResponse::request_id: "" for the unsolicited WriteMatchData.
response_request_id(r) ==
    IF r.variant = "WriteMatchData" THEN "" ELSE r.request_id

\* No response value: dispatch_command has no arm for the command.
NoResponse == [variant |-> "NoResponse", request_id |-> ""]

\* No handler result: nothing was called.
NoResult == [unit |-> TRUE]

(* ------------------------------------------------------------------ *)
(* types.rs: values the handler and the producers hand to the engine   *)
(* ------------------------------------------------------------------ *)

\* An f64: a finite number, or NaN.
F64(n) == [nan |-> FALSE, n |-> n]

NaN == [nan |-> TRUE, n |-> 0]

\* GameEvent::new(event_type, timestamp_secs, data): no capture overrides.
GameEvent_new(event_type, timestamp_secs, data) ==
    [event_type |-> event_type, timestamp_secs |-> timestamp_secs, data |-> data,
     pre_capture_secs |-> None, post_capture_secs |-> None]

\* GameEvent::with_pre_capture(self, secs)
with_pre_capture(e, secs) == [e EXCEPT !.pre_capture_secs = Some(secs)]

\* Moment::new(moment_id, game_time_secs, data)
Moment_new(moment_id, game_time_secs, data) ==
    [moment_id |-> moment_id, game_time_secs |-> game_time_secs, data |-> data]

\* TimelineEntry::event(event_type, game_time_secs, captured_at, data)
TimelineEntry_event(event_type, game_time_secs, captured_at, data) ==
    [entry_type |-> "Event", entry_key |-> event_type,
     game_time_secs |-> game_time_secs, captured_at |-> captured_at,
     data |-> data, trigger_fired |-> None]

\* TimelineEntry::moment(moment_id, game_time_secs, captured_at, data, fired)
TimelineEntry_moment(moment_id, game_time_secs, captured_at, data, trigger_fired) ==
    [entry_type |-> "Moment", entry_key |-> moment_id,
     game_time_secs |-> game_time_secs, captured_at |-> captured_at,
     data |-> data, trigger_fired |-> Some(trigger_fired)]

\* A MatchDataMessage value.  Fields a variant does not have keep their default.
Message(v, sub, mid, played, secs, stats, events, moments, src, fin) ==
    [variant |-> v, subpack |-> sub, external_match_id |-> mid,
     played_at |-> played, game_time_secs |-> secs, stats |-> stats,
     events |-> events, moments |-> moments, summary_source |-> src,
     final_stats |-> fin]

\* MatchDataMessage::write_statistics: played_at is None.
write_statistics(subpack, external_match_id, game_time_secs, stats) ==
    Message("WriteStatistics", subpack, external_match_id, None, game_time_secs,
            stats, << >>, << >>, "", None)

\* MatchDataMessage::write_statistics_with_time
write_statistics_with_time(subpack, external_match_id, played_at, game_time_secs, stats) ==
    Message("WriteStatistics", subpack, external_match_id, Some(played_at),
            game_time_secs, stats, << >>, << >>, "", None)

\* MatchDataMessage::write_game_events
write_game_events(subpack, external_match_id, events) ==
    Message("WriteGameEvents", subpack, external_match_id, None, F64(0), Leaf(Null),
            events, << >>, "", None)

\* MatchDataMessage::write_moments
write_moments(subpack, external_match_id, moments) ==
    Message("WriteMoments", subpack, external_match_id, None, F64(0), Leaf(Null),
            << >>, moments, "", None)

\* MatchDataMessage::set_complete: final_stats is None.
set_complete(subpack, external_match_id, summary_source) ==
    Message("SetComplete", subpack, external_match_id, None, F64(0), Leaf(Null),
            << >>, << >>, summary_source, None)

\* MatchDataMessage::set_complete_with_stats
set_complete_with_stats(subpack, external_match_id, summary_source, final_stats) ==
    Message("SetComplete", subpack, external_match_id, None, F64(0), Leaf(Null),
            << >>, << >>, summary_source, Some(final_stats))

\* An ended() that reports the match as still being played.
ended_playing == [still_playing |-> TRUE, set_complete |-> None]

\* IsMatchInProgressResponse::ended()
ended == [still_playing |-> FALSE, set_complete |-> None]

\* IsMatchInProgressResponse::still_playing()
still_playing == [still_playing |-> TRUE, set_complete |-> None]

\* IsMatchInProgressResponse::ended_with_stats(set_complete)
ended_with_stats(m) == [still_playing |-> FALSE, set_complete |-> Some(m)]

\* serde_json::to_value(m) of a MatchData: the JSON object of its fields.
to_value(m) ==
    Leaf(Struct) @@ At("game_slug", Leaf(Str(m.game_slug)))
      @@ At("game_id", Leaf(Num(m.game_id)))
      @@ At("result", Leaf(Str(m.result))) @@ At("details", m.details)

\* MatchDataMessage: the four unsolicited messages, as the tests build them.
Messages ==
    { write_statistics(0, "m1", F64(100), Leaf(Obj("{}"))),
      write_game_events(0, "m1", <<GameEvent_new("Kill", F64(50), Leaf(Obj("{}")))>>),
      write_moments(0, "m1", <<Moment_new("death", F64(75), Leaf(Obj("{}")))>>),
      set_complete(0, "m1", "Api") }

\* The messages of the whole system (loop and producers together).
CoreMessages == { m \in Messages : m.variant = "WriteStatistics" }

NoMessage == Message("", 0, "", None, F64(0), Leaf(Null), << >>, << >>, "", None)

\* No value.
Nothing == [unit |-> TRUE]

\* A Result: a value, or an error.
Ok(v) == [ok |-> TRUE, v |-> v]

Err == [ok |-> FALSE, v |-> Nothing]

(* ------------------------------------------------------------------ *)
(* handler.rs: what a GamepackHandler may return                       *)
(* ------------------------------------------------------------------ *)

\* A call of a handler method with its arguments.
Call(m, sub, s, v) == [method |-> m, subpack |-> sub, s |-> s, v |-> v]

Payloads == {Leaf(Obj("{}")), Leaf(Obj("{\"test\":true}"))}

\* MatchData returned by on_session_end.
MatchDatas ==
    { [game_slug |-> "test", game_id |-> 99, result |-> "win",
       details |-> Leaf(Obj("{}"))] }

\* init(): Ok(InitResponse) or Err(GamepackError).
InitResults ==
    { [ok |-> TRUE, game_id |-> g, slug |-> s, protocol_version |-> pv,
       message |-> "", code |-> None] :
        g \in {1, 99}, s \in {"test"}, pv \in {0, 1, 2} }
    \cup
    { [ok |-> FALSE, game_id |-> 0, slug |-> "", protocol_version |-> 0,
       message |-> m, code |-> c] :
        m \in {"init failed", "no client"}, c \in {None, Some("E_INIT")} }

\* get_status(): GameStatus.
StatusResults ==
    [connected : BOOLEAN, connection_status : {"Connected"},
     game_phase : {None, Some("Lobby")}, is_in_game : BOOLEAN]

\* The default method of the trait: the match has ended, whatever the
\* subpack and the match id.
is_match_in_progress(subpack, external_match_id) == ended

\* is_match_in_progress(subpack, id) of a handler that keeps the default
\* method (overrides = FALSE), or of one that overrides it and may return
\* any IsMatchInProgressResponse.
InProgressResults(subpack, external_match_id) ==
    { [overrides |-> FALSE, still_playing |-> r.still_playing,
       set_complete |-> r.set_complete] :
        r \in {is_match_in_progress(subpack, external_match_id)} }
    \cup
    { [overrides |-> TRUE, still_playing |-> r.still_playing,
       set_complete |-> r.set_complete] :
        r \in {still_playing, ended,
               ended_with_stats(set_complete(subpack, external_match_id, "Api"))} }

\* A default method that answers every key with a generic icon.
resolve_event_icon_generic(event_key) == Some("generic.png")

\* The default method of the trait: no icon, whatever the key.
resolve_event_icon(event_key) == None

\* resolve_event_icon(key) of a handler that keeps the default method
\* (overrides = FALSE), or of one that overrides it and may find an icon or
\* none.
IconResults(event_key) ==
    { [overrides |-> FALSE, icon_url |-> resolve_event_icon(event_key)] }
    \cup { [overrides |-> TRUE, icon_url |-> u] : u \in {None, Some("icon.png")} }

\* The results the handler may return to the call dispatch_command makes
\* for cmd (a single value where dispatch_command calls nothing).
HandlerResults(cmd) ==
    CASE cmd.variant = "Init" -> InitResults
      [] cmd.variant = "DetectRunning" -> [running : BOOLEAN]
      [] cmd.variant = "GetStatus" -> StatusResults
      [] cmd.variant = "PollEvents" ->
             [events : {<< >>, <<GameEvent_new("ChampionKill", F64(100), Leaf(Obj("{}")))>>}]
      [] cmd.variant = "GetLiveData" -> [data : {None} \cup {Some(p) : p \in Payloads}]
      [] cmd.variant = "SessionStart" ->
             [context : {None} \cup {Some(p) : p \in Payloads}]
      [] cmd.variant = "SessionEnd" ->
             [match_data : {None} \cup {Some(m) : m \in MatchDatas}]
      [] cmd.variant = "ResolveEventIcon" -> IconResults(cmd.event_key)
      [] cmd.variant = "IsMatchInProgress" ->
             InProgressResults(cmd.subpack, cmd.external_match_id)
      [] OTHER -> {NoResult}

(* ------------------------------------------------------------------ *)
(* runner.rs: dispatch_command                                         *)
(* ------------------------------------------------------------------ *)

\* The handler's version passed through without the fallback.
negotiated_version_raw(protocol_version) == protocol_version

\* The protocol_version of the Initialized response: the handler's version,
\* or the crate's when the handler declared 0.
negotiated_version(protocol_version) ==
    IF protocol_version > 0 THEN protocol_version ELSE PROTOCOL_VERSION

\* An Init failure answered without the handler error's code.
init_error_nocode(rid, e) == error(rid, e.message)

\* Err(e) => GamepackResponse::Error { request_id, message: e.message,
\* code: e.code }
init_error(rid, e) ==
    [variant |-> "Error", request_id |-> rid, message |-> e.message, code |-> e.code]

\* A timeline request answered with an Error.
match_timeline_error(rid) == error(rid, "no timeline")

\* A timeline answer that reports the match as found.
match_timeline_found(rid) ==
    [variant |-> "MatchTimeline", request_id |-> rid, found |-> TRUE, entries |-> << >>]

\* GamepackResponse::MatchTimeline { request_id, found: false, entries: vec![] }
match_timeline(rid) ==
    [variant |-> "MatchTimeline", request_id |-> rid, found |-> FALSE, entries |-> << >>]

\* A GameStatus with connected and is_in_game taken from each other.
game_status_swapped(rid, status) ==
    [variant |-> "GameStatus", request_id |-> rid,
     connected |-> status.is_in_game,
     connection_status |-> status.connection_status,
     game_phase |-> status.game_phase,
     is_in_game |-> status.connected]

\* GamepackResponse::GameStatus { request_id, connected: status.connected,
\* connection_status: status.connection_status, game_phase:
\* status.game_phase, is_in_game: status.is_in_game }
game_status(rid, status) ==
    [variant |-> "GameStatus", request_id |-> rid,
     connected |-> status.connected,
     connection_status |-> status.connection_status,
     game_phase |-> status.game_phase,
     is_in_game |-> status.is_in_game]

\* A Shutdown answered without the cleanup call.
shutdown_nocall(rid) ==
    [calls |-> << >>,
     response |-> [variant |-> "ShutdownComplete", request_id |-> rid]]

\* handler.shutdown(); GamepackResponse::ShutdownComplete { request_id }
shutdown(rid) ==
    [calls |-> <<Call("shutdown", 0, "", Null)>>,
     response |-> [variant |-> "ShutdownComplete", request_id |-> rid]]

\* Result::unwrap_or_default for a Result<serde_json::Value, _>: the value,
\* or Value::default(), which is Null.
unwrap_or_default(result) == IF result.ok THEN result.v ELSE Leaf(Null)

\* A SessionEnd that hands the handler a null context.
session_end_nocontext(rid, context, values) ==
    [calls |-> <<Call("on_session_end", 0, "", Null)>>,
     response |-> [variant |-> "SessionEnded", request_id |-> rid,
                   match_data |-> { unwrap_or_default(v) : v \in values }]]

\* let match_data = handler.on_session_end(context);
\* SessionEnded { request_id, match_data: match_data.map(|m|
\*     serde_json::to_value(m).unwrap_or_default()) }
\* values is the Option of the Result of to_value for the handler's MatchData.
session_end(rid, context, values) ==
    [calls |-> <<Call("on_session_end", 0, "", context)>>,
     response |-> [variant |-> "SessionEnded", request_id |-> rid,
                   match_data |-> { unwrap_or_default(v) : v \in values }]]

\* What dispatch_command does with cmd when the handler returns h to the call
\* it makes: the handler calls made, in order, and the response returned.
dispatch_command(cmd, h) ==
    LET rid == request_id(cmd) IN
    CASE cmd.variant = "Init" ->
           [calls |-> <<Call("init", 0, "", Null)>>,
            response |->
              IF h.ok
              THEN [variant |-> "Initialized", request_id |-> rid,
                    game_id |-> h.game_id, slug |-> h.slug,
                    protocol_version |-> negotiated_version(h.protocol_version)]
              ELSE init_error(rid, h)]
      [] cmd.variant = "DetectRunning" ->
           [calls |-> <<Call("detect_running", 0, "", Null)>>,
            response |-> [variant |-> "RunningStatus", request_id |-> rid,
                          running |-> h.running]]
      [] cmd.variant = "GetStatus" ->
           [calls |-> <<Call("get_status", 0, "", Null)>>,
            response |-> game_status(rid, h)]
      [] cmd.variant = "PollEvents" ->
           [calls |-> <<Call("poll_events", 0, "", Null)>>,
            response |-> [variant |-> "Events", request_id |-> rid,
                          events |-> h.events]]
      [] cmd.variant = "GetLiveData" ->
           [calls |-> <<Call("get_live_data", 0, "", Null)>>,
            response |-> [variant |-> "LiveData", request_id |-> rid,
                          data |-> h.data]]
      [] cmd.variant = "SessionStart" ->
           [calls |-> <<Call("on_session_start", 0, "", Null)>>,
            response |-> [variant |-> "SessionStarted", request_id |-> rid,
                          context |-> h.context]]
      [] cmd.variant = "SessionEnd" ->
           session_end(rid, cmd.context, { Ok(to_value(m)) : m \in h.match_data })
      [] cmd.variant = "Shutdown" -> shutdown(rid)
      [] cmd.variant = "ResolveEventIcon" ->
           [calls |-> <<Call("resolve_event_icon", 0, cmd.event_key, Null)>>,
            response |-> [variant |-> "EventIconResolved", request_id |-> rid,
                          event_key |-> cmd.event_key, icon_url |-> h.icon_url]]
      [] cmd.variant = "IsMatchInProgress" ->
           [calls |-> <<Call("is_match_in_progress", cmd.subpack,
                             cmd.external_match_id, Null)>>,
            response |-> [variant |-> "MatchInProgressStatus", request_id |-> rid,
                          still_playing |-> h.still_playing,
                          set_complete |-> h.set_complete]]
      [] cmd.variant = "GetMatchTimeline" ->
           [calls |-> << >>, response |-> match_timeline(rid)]
      \* The match has no arm for GetSampleMatchData: nothing is called and
      \* no response value is made.
      [] OTHER -> [calls |-> << >>, response |-> NoResponse]

(* ------------------------------------------------------------------ *)
(* Serialization and the output stream                                 *)
(* ------------------------------------------------------------------ *)

\* #[serde(tag = "type", rename_all = "snake_case")] of GamepackResponse.
ResponseTag(v) ==
    CASE v = "Initialized" -> "initialized"
      [] v = "RunningStatus" -> "running_status"
      [] v = "GameStatus" -> "game_status"
      [] v = "Events" -> "events"
      [] v = "LiveData" -> "live_data"
      [] v = "SessionStarted" -> "session_started"
      [] v = "SessionEnded" -> "session_ended"
      [] v = "Error" -> "error"
      [] v = "ShutdownComplete" -> "shutdown_complete"
      [] v = "EventIconResolved" -> "event_icon_resolved"
      [] v = "MatchInProgressStatus" -> "match_in_progress_status"
      [] v = "MatchTimeline" -> "match_timeline"
      [] v = "WriteMatchData" -> "write_match_data"
      [] v = "SampleMatchData" -> "sample_match_data"

\* #[serde(tag = "type", rename_all = "snake_case")] of MatchDataMessage.
MessageTag(v) ==
    CASE v = "WriteStatistics" -> "write_statistics"
      [] v = "WriteGameEvents" -> "write_game_events"
      [] v = "WriteMoments" -> "write_moments"
      [] v = "SetComplete" -> "set_complete"

\* #[serde(rename_all = "snake_case")] of SummarySource.
SummarySourceName(v) ==
    CASE v = "Api" -> "api"
      [] v = "LiveFallback" -> "live_fallback"

\* #[serde(rename_all = "snake_case")] of EntryType.
EntryTypeName(v) ==
    CASE v = "Event" -> "event"
      [] v = "Statistic" -> "statistic"
      [] v = "Moment" -> "moment"

ser_str(x) == Leaf(Str(x))

ser_bool(x) == Leaf(Bool(x))

ser_num(x) == Leaf(Num(x))

\* serde_json writes a non-finite f64 as null.
ser_f64(x) == IF x.nan THEN Leaf(Null) ELSE Leaf(Num(x.n))

\* A serde_json::Value is written as it is.
ser_value(v) == v

\* A member that is never written.
skip_always(opt) == Omitted

\* An Option field without attribute, opt being the Option of the member's
\* serialization: None is written as null.
none_as_null(opt) == IF opt = None THEN Leaf(Null) ELSE Unwrap(opt)

\* #[serde(skip_serializing_if = "Option::is_none")]: None is not written.
skip_none(opt) == IF opt = None THEN Omitted ELSE Unwrap(opt)

\* GameEvent (types.rs:50-68)
event_to_json(e) ==
    Leaf(Struct) @@ At("event_type", ser_str(e.event_type))
      @@ At("timestamp_secs", ser_f64(e.timestamp_secs))
      @@ At("data", ser_value(e.data))
      @@ At("pre_capture_secs", skip_none({ser_f64(x) : x \in e.pre_capture_secs}))
      @@ At("post_capture_secs", skip_none({ser_f64(x) : x \in e.post_capture_secs}))

\* Moment (types.rs:192-200)
moment_to_json(m) ==
    Leaf(Struct) @@ At("moment_id", ser_str(m.moment_id))
      @@ At("game_time_secs", ser_f64(m.game_time_secs))
      @@ At("data", ser_value(m.data))

\* TimelineEntry (types.rs:448-463)
entry_to_json(e) ==
    Leaf(Struct) @@ At("entry_type", ser_str(EntryTypeName(e.entry_type)))
      @@ At("entry_key", ser_str(e.entry_key))
      @@ At("game_time_secs", ser_f64(e.game_time_secs))
      @@ At("captured_at", ser_str(e.captured_at))
      @@ At("data", ser_value(e.data))
      @@ At("trigger_fired", skip_none({ser_bool(x) : x \in e.trigger_fired}))

\* MatchDataMessage (types.rs:227-296)
message_to_json(m) ==
    LET head == Leaf(Struct) @@ At("type", ser_str(MessageTag(m.variant)))
                  @@ At("subpack", ser_num(m.subpack))
                  @@ At("external_match_id", ser_str(m.external_match_id))
    IN
    CASE m.variant = "WriteStatistics" ->
           head @@ At("played_at", skip_none({ser_str(x) : x \in m.played_at}))
                @@ At("game_time_secs", ser_f64(m.game_time_secs))
                @@ At("stats", ser_value(m.stats))
      [] m.variant = "WriteGameEvents" ->
           head @@ At("events",
                      Array([i \in 1..Len(m.events) |-> event_to_json(m.events[i])]))
      [] m.variant = "WriteMoments" ->
           head @@ At("moments",
                      Array([i \in 1..Len(m.moments) |-> moment_to_json(m.moments[i])]))
      [] m.variant = "SetComplete" ->
           head @@ At("summary_source", ser_str(SummarySourceName(m.summary_source)))
                @@ At("final_stats", skip_none({ser_value(x) : x \in m.final_stats}))

\* GamepackResponse (responses.rs:10-139): the document written for r.
to_json(r) ==
    LET tag == Leaf(Struct) @@ At("type", ser_str(ResponseTag(r.variant)))
        head == IF r.variant = "WriteMatchData" THEN tag
                ELSE tag @@ At("request_id", ser_str(r.request_id))
    IN
    CASE r.variant = "Initialized" ->
           head @@ At("game_id", ser_num(r.game_id)) @@ At("slug", ser_str(r.slug))
                @@ At("protocol_version", ser_num(r.protocol_version))
      [] r.variant = "RunningStatus" -> head @@ At("running", ser_bool(r.running))
      [] r.variant = "GameStatus" ->
           head @@ At("connected", ser_bool(r.connected))
                @@ At("connection_status", ser_str(r.connection_status))
                @@ At("game_phase", none_as_null({ser_str(x) : x \in r.game_phase}))
                @@ At("is_in_game", ser_bool(r.is_in_game))
      [] r.variant = "Events" ->
           head @@ At("events",
                      Array([i \in 1..Len(r.events) |-> event_to_json(r.events[i])]))
      [] r.variant = "LiveData" -> head @@ At("data", none_as_null({ser_value(x) : x \in r.data}))
      [] r.variant = "SessionStarted" ->
           head @@ At("context", none_as_null({ser_value(x) : x \in r.context}))
      [] r.variant = "SessionEnded" ->
           head @@ At("match_data", none_as_null({ser_value(x) : x \in r.match_data}))
      [] r.variant = "Error" ->
           head @@ At("message", ser_str(r.message))
                @@ At("code", none_as_null({ser_str(x) : x \in r.code}))
      [] r.variant = "ShutdownComplete" -> head
      [] r.variant = "EventIconResolved" ->
           head @@ At("event_key", ser_str(r.event_key))
                @@ At("icon_url", none_as_null({ser_str(x) : x \in r.icon_url}))
      [] r.variant = "MatchInProgressStatus" ->
           head @@ At("still_playing", ser_bool(r.still_playing))
                @@ At("set_complete", skip_none({message_to_json(x) : x \in r.set_complete}))
      [] r.variant = "MatchTimeline" ->
           head @@ At("found", ser_bool(r.found))
                @@ At("entries",
                      Array([i \in 1..Len(r.entries) |-> entry_to_json(r.entries[i])]))
      [] r.variant = "WriteMatchData" -> head @@ At("message", message_to_json(r.message))
      [] r.variant = "SampleMatchData" ->
           head @@ At("subpack", ser_num(r.subpack)) @@ At("data", ser_value(r.data))

\* serde_json::to_string(&response): the JSON text of a response; the stream
\* keeps its discriminant and its request_id ("" for WriteMatchData, which
\* has no such member).  Only a value of the enum can be serialized.
to_string(r) ==
    IF r.variant \in ResponseVariants
    THEN LET doc == to_json(r) IN
         [ok |-> TRUE,
          json |-> [type |-> doc[<<"type">>].s,
                    request_id |-> IF <<"request_id">> \in DOMAIN doc
                                   THEN doc[<<"request_id">>].s ELSE ""]]
    ELSE [ok |-> FALSE, json |-> [type |-> "", request_id |-> ""]]

(* ------------------------------------------------------------------ *)
(* Deserialization of the documents the gamepack writes                *)
(* ------------------------------------------------------------------ *)

\* The kind of the value of member name ("absent" when there is none).
Kind(t, name) == IF <<name>> \in DOMAIN t THEN t[<<name>>].t ELSE "absent"

\* An Option member that takes null for a value it requires.
IsOpt_nonull(t, name, kind) == Kind(t, name) \in {"absent", kind}

\* An Option member of a given kind: absent, null, or a value of the kind.
IsOpt(t, name, kind) == Kind(t, name) \in {"absent", "null", kind}

\* A u8 member: a number in 0..255.
IsU8(t, name) ==
    Kind(t, name) = "num" /\ t[<<name>>].n >= 0 /\ t[<<name>>].n <= 255

\* A u32 member: a number that is not negative.
IsU32(t, name) == Kind(t, name) = "num" /\ t[<<name>>].n >= 0

\* An Option<String> member.
OptStrOf(t, name) ==
    IF Kind(t, name) = "str" THEN Some(t[<<name>>].s) ELSE None

\* An Option<f64> member.
OptF64Of(t, name) ==
    IF Kind(t, name) = "num" THEN Some(F64(t[<<name>>].n)) ELSE None

\* An Option<bool> member.
OptBoolOf(t, name) ==
    IF Kind(t, name) = "bool" THEN Some(t[<<name>>].n = 1) ELSE None

\* A reading that takes an empty object for no value.
OptValueOf_noempty(t, name) ==
    IF Kind(t, name) \in {"absent", "null"} \/ Sub(t, name) = Leaf(Obj("{}"))
    THEN None ELSE Some(Sub(t, name))

\* An Option<serde_json::Value> or Option<HashMap> member: absent and null
\* are None, any other value is Some.
OptValueOf(t, name) ==
    IF Kind(t, name) \in {"absent", "null"} THEN None ELSE Some(Sub(t, name))

\* The variant of a set whose discriminant under Tag is tag ("" if none).
VariantOf(tags, tag) ==
    IF \E v \in DOMAIN tags : tags[v] = tag
    THEN CHOOSE v \in DOMAIN tags : tags[v] = tag
    ELSE ""

\* The discriminants of the enums read by name.
EntryTypeTags == [v \in {"Event", "Statistic", "Moment"} |-> EntryTypeName(v)]
SummarySourceTags == [v \in {"Api", "LiveFallback"} |-> SummarySourceName(v)]
MessageTags ==
    [v \in {"WriteStatistics", "WriteGameEvents", "WriteMoments", "SetComplete"} |->
        MessageTag(v)]
ResponseTags == [v \in ResponseVariants |-> ResponseTag(v)]

\* GameEvent: Deserialize
parse_event(t) ==
    IF /\ Kind(t, "event_type") = "str" /\ Kind(t, "timestamp_secs") = "num"
       /\ Kind(t, "data") # "absent"
       /\ IsOpt(t, "pre_capture_secs", "num") /\ IsOpt(t, "post_capture_secs", "num")
    THEN Ok([event_type |-> t[<<"event_type">>].s,
             timestamp_secs |-> F64(t[<<"timestamp_secs">>].n),
             data |-> Sub(t, "data"),
             pre_capture_secs |-> OptF64Of(t, "pre_capture_secs"),
             post_capture_secs |-> OptF64Of(t, "post_capture_secs")])
    ELSE Err

\* Moment: Deserialize
parse_moment(t) ==
    IF /\ Kind(t, "moment_id") = "str" /\ Kind(t, "game_time_secs") = "num"
       /\ Kind(t, "data") # "absent"
    THEN Ok([moment_id |-> t[<<"moment_id">>].s,
             game_time_secs |-> F64(t[<<"game_time_secs">>].n),
             data |-> Sub(t, "data")])
    ELSE Err

\* TimelineEntry: Deserialize (the entry_type is read by its exact name)
parse_entry(t) ==
    IF /\ Kind(t, "entry_type") = "str"
       /\ VariantOf(EntryTypeTags,
                    t[<<"entry_type">>].s) # ""
       /\ Kind(t, "entry_key") = "str" /\ Kind(t, "game_time_secs") = "num"
       /\ Kind(t, "captured_at") = "str" /\ Kind(t, "data") # "absent"
       /\ IsOpt(t, "trigger_fired", "bool")
    THEN Ok([entry_type |-> VariantOf(EntryTypeTags, t[<<"entry_type">>].s),
             entry_key |-> t[<<"entry_key">>].s,
             game_time_secs |-> F64(t[<<"game_time_secs">>].n),
             captured_at |-> t[<<"captured_at">>].s,
             data |-> Sub(t, "data"),
             trigger_fired |-> OptBoolOf(t, "trigger_fired")])
    ELSE Err

\* The elements of an array (none if t is not an array).
Elements(t) ==
    IF << >> \in DOMAIN t /\ t[<< >>].t = "arr"
    THEN [i \in 1..t[<< >>].n |-> Sub(t, Index(i))]
    ELSE << >>

\* Vec<T>: Deserialize, given the deserialization of each element.
parse_array(t, parsed) ==
    IF << >> \in DOMAIN t /\ t[<< >>].t = "arr" /\ \A i \in DOMAIN parsed : parsed[i].ok
    THEN Ok([i \in DOMAIN parsed |-> parsed[i].v])
    ELSE Err

\* Vec<GameEvent>, Vec<Moment>, Vec<TimelineEntry>: Deserialize
parse_events(t) == parse_array(t, [i \in DOMAIN Elements(t) |-> parse_event(Elements(t)[i])])
parse_moments(t) == parse_array(t, [i \in DOMAIN Elements(t) |-> parse_moment(Elements(t)[i])])
parse_entries(t) == parse_array(t, [i \in DOMAIN Elements(t) |-> parse_entry(Elements(t)[i])])

\* MatchDataMessage: Deserialize
parse_message(t) ==
    IF ~(/\ << >> \in DOMAIN t /\ t[<< >>] = Struct /\ Kind(t, "type") = "str"
         /\ IsU8(t, "subpack") /\ Kind(t, "external_match_id") = "str")
    THEN Err
    ELSE
    LET v == VariantOf(MessageTags, t[<<"type">>].s)
        sub == t[<<"subpack">>].n
        mid == t[<<"external_match_id">>].s
    IN
    CASE v = "WriteStatistics" ->
           IF /\ IsOpt(t, "played_at", "str") /\ Kind(t, "game_time_secs") = "num"
              /\ Kind(t, "stats") = "obj"
           THEN Ok(Message(v, sub, mid, OptStrOf(t, "played_at"),
                           F64(t[<<"game_time_secs">>].n), Sub(t, "stats"),
                           << >>, << >>, "", None))
           ELSE Err
      [] v = "WriteGameEvents" ->
           IF parse_events(Sub(t, "events")).ok
           THEN Ok(Message(v, sub, mid, None, F64(0), Leaf(Null),
                           parse_events(Sub(t, "events")).v,
                           << >>, "", None))
           ELSE Err
      [] v = "WriteMoments" ->
           IF parse_moments(Sub(t, "moments")).ok
           THEN Ok(Message(v, sub, mid, None, F64(0), Leaf(Null), << >>,
                           parse_moments(Sub(t, "moments")).v,
                           "", None))
           ELSE Err
      [] v = "SetComplete" ->
           IF /\ Kind(t, "summary_source") = "str"
              /\ VariantOf(SummarySourceTags,
                           t[<<"summary_source">>].s) # ""
              /\ IsOpt(t, "final_stats", "obj")
           THEN Ok(Message(v, sub, mid, None, F64(0), Leaf(Null), << >>, << >>,
                           VariantOf(SummarySourceTags,
                                     t[<<"summary_source">>].s),
                           OptValueOf(t, "final_stats")))
           ELSE Err
      [] OTHER -> Err

\* Option<MatchDataMessage>: Deserialize
parse_opt_message(t, name) ==
    IF Kind(t, name) \in {"absent", "null"} THEN Ok(None)
    ELSE IF parse_message(Sub(t, name)).ok
    THEN Ok(Some(parse_message(Sub(t, name)).v))
    ELSE Err

\* GamepackResponse: Deserialize (what the daemon reads from a written line)
from_json(t) ==
    IF ~(<< >> \in DOMAIN t /\ t[<< >>] = Struct /\ Kind(t, "type") = "str")
    THEN Err
    ELSE
    LET v == VariantOf(ResponseTags, t[<<"type">>].s) IN
    IF v = "" THEN Err
    ELSE IF v = "WriteMatchData"
    THEN IF parse_message(Sub(t, "message")).ok
         THEN Ok([variant |-> v, message |-> parse_message(Sub(t, "message")).v])
         ELSE Err
    ELSE IF Kind(t, "request_id") # "str" THEN Err
    ELSE
    LET rid == t[<<"request_id">>].s IN
    CASE v = "Initialized" ->
           IF Kind(t, "game_id") = "num" /\ Kind(t, "slug") = "str"
              /\ IsU32(t, "protocol_version")
           THEN Ok([variant |-> v, request_id |-> rid,
                    game_id |-> t[<<"game_id">>].n, slug |-> t[<<"slug">>].s,
                    protocol_version |-> t[<<"protocol_version">>].n])
           ELSE Err
      [] v = "RunningStatus" ->
           IF Kind(t, "running") = "bool"
           THEN Ok([variant |-> v, request_id |-> rid,
                    running |-> t[<<"running">>].n = 1])
           ELSE Err
      [] v = "GameStatus" ->
           IF /\ Kind(t, "connected") = "bool" /\ Kind(t, "connection_status") = "str"
              /\ IsOpt(t, "game_phase", "str") /\ Kind(t, "is_in_game") = "bool"
           THEN Ok([variant |-> v, request_id |-> rid,
                    connected |-> t[<<"connected">>].n = 1,
                    connection_status |-> t[<<"connection_status">>].s,
                    game_phase |-> OptStrOf(t, "game_phase"),
                    is_in_game |-> t[<<"is_in_game">>].n = 1])
           ELSE Err
      [] v = "Events" ->
           IF parse_events(Sub(t, "events")).ok
           THEN Ok([variant |-> v, request_id |-> rid,
                    events |-> parse_events(Sub(t, "events")).v])
           ELSE Err
      [] v = "LiveData" ->
           Ok([variant |-> v, request_id |-> rid, data |-> OptValueOf(t, "data")])
      [] v = "SessionStarted" ->
           Ok([variant |-> v, request_id |-> rid, context |-> OptValueOf(t, "context")])
      [] v = "SessionEnded" ->
           Ok([variant |-> v, request_id |-> rid,
               match_data |-> OptValueOf(t, "match_data")])
      [] v = "Error" ->
           IF Kind(t, "message") = "str" /\ IsOpt(t, "code", "str")
           THEN Ok([variant |-> v, request_id |-> rid,
                    message |-> t[<<"message">>].s, code |-> OptStrOf(t, "code")])
           ELSE Err
      [] v = "ShutdownComplete" -> Ok([variant |-> v, request_id |-> rid])
      [] v = "EventIconResolved" ->
           IF Kind(t, "event_key") = "str" /\ IsOpt(t, "icon_url", "str")
           THEN Ok([variant |-> v, request_id |-> rid,
                    event_key |-> t[<<"event_key">>].s,
                    icon_url |-> OptStrOf(t, "icon_url")])
           ELSE Err
      [] v = "MatchInProgressStatus" ->
           IF Kind(t, "still_playing") = "bool" /\ parse_opt_message(t, "set_complete").ok
           THEN Ok([variant |-> v, request_id |-> rid,
                    still_playing |-> t[<<"still_playing">>].n = 1,
                    set_complete |-> parse_opt_message(t, "set_complete").v])
           ELSE Err
      [] v = "MatchTimeline" ->
           IF Kind(t, "found") = "bool" /\ parse_entries(Sub(t, "entries")).ok
           THEN Ok([variant |-> v, request_id |-> rid,
                    found |-> t[<<"found">>].n = 1,
                    entries |-> parse_entries(Sub(t, "entries")).v])
           ELSE Err
      [] v = "SampleMatchData" ->
           IF IsU8(t, "subpack") /\ Kind(t, "data") # "absent"
           THEN Ok([variant |-> v, request_id |-> rid,
                    subpack |-> t[<<"subpack">>].n, data |-> Sub(t, "data")])
           ELSE Err

\* What the stream holds: the JSON text of a document, or a newline.
Doc(src, n, json) ==
    [tok |-> "doc", src |-> src, n |-> n, type |-> json.type,
     request_id |-> json.request_id]

NL == [tok |-> "nl", src |-> "", n |-> 0, type |-> "", request_id |-> ""]

\* write!(stdout, "{}", json): the text without its newline.
write_no_newline(src, n, json) == <<Doc(src, n, json)>>

\* writeln!(stdout, "{}", json): the text and its newline, in one write
\* (Stdout holds its own lock for the whole of one write_fmt call).
writeln(src, n, json) == <<Doc(src, n, json), NL>>

(* ------------------------------------------------------------------ *)
(* State                                                               *)
(* ------------------------------------------------------------------ *)

\* The codec at rest: nothing was serialized or parsed yet.
NoCodec == [op |-> "none", st |-> "idle", x |-> Nothing, text |-> Nothing, back |-> Nothing]

VARIABLES
    pc,        \* run_gamepack: where the loop is
    stop,      \* run_gamepack: why the loop stopped ("" while it runs)
    lineNo,    \* number of input lines read so far
    line,      \* the line being processed
    hres,      \* what the handler returned in the current iteration
    response,  \* the response of the current iteration
    wr,        \* the result of the current iteration's writeln
    calls,     \* every handler call made, in order
    stdout,    \* what the daemon has received on the output stream
    pipe,      \* the output pipe: "open", or "broken" (writes fail)
    lock,      \* STDOUT_LOCK: 0 when free, else the producer holding it
    epc,       \* emit_match_data: where each producer is
    emsg,      \* emit_match_data: the message each producer emits
    codec,     \* a value taken through serialization and parsing
    acquired   \* the producers that acquired STDOUT_LOCK, in order

vars == <<pc, stop, lineNo, line, hres, response, wr, calls, stdout, pipe, lock, epc, emsg, codec, acquired>>

Producers == 1..NumProducers

Init ==
    /\ pc = "read"
    /\ stop = ""
    /\ lineNo = 0
    /\ line = NoLine
    /\ hres = NoResult
    /\ response = NoResponse
    /\ wr = "none"
    /\ calls = << >>
    /\ stdout = << >>
    /\ pipe = "open"
    /\ lock = 0
    /\ epc = [p \in Producers |-> "idle"]
    /\ emsg = [p \in Producers |-> NoMessage]
    /\ codec = NoCodec
    /\ acquired = << >>

(* ------------------------------------------------------------------ *)
(* runner.rs: run_gamepack                                             *)
(* ------------------------------------------------------------------ *)

\* A read that hands a blank line to the parser instead of skipping it.
ReadLine_blankparse(L) ==
    /\ pc = "read"
    /\ lineNo < MaxLines
    /\ \E l \in L :
         /\ lineNo' = lineNo + 1
         /\ line' = l
         /\ hres' = NoResult
         /\ response' = NoResponse
         /\ wr' = "none"
         /\ IF l.k = "nonutf8"
            THEN pc' = "stopped" /\ stop' = "read_error"
            ELSE pc' = "dispatch" /\ stop' = stop
    /\ UNCHANGED <<calls, stdout, pipe, lock, epc, emsg, codec, acquired>>

\* A read that leaves the loop on a blank line instead of skipping it.
ReadLine_blankstop(L) ==
    /\ pc = "read"
    /\ lineNo < MaxLines
    /\ \E l \in L :
         /\ lineNo' = lineNo + 1
         /\ line' = l
         /\ hres' = NoResult
         /\ response' = NoResponse
         /\ wr' = "none"
         /\ IF l.k = "nonutf8" \/ trim_is_empty(l)
            THEN pc' = "stopped" /\ stop' = "read_error"
            ELSE pc' = "dispatch" /\ stop' = stop
    /\ UNCHANGED <<calls, stdout, pipe, lock, epc, emsg, codec, acquired>>

\* A read that goes on to the next line after a failed read.
ReadLine_errskip(L) ==
    /\ pc = "read"
    /\ lineNo < MaxLines
    /\ \E l \in L :
         /\ lineNo' = lineNo + 1
         /\ line' = l
         /\ hres' = NoResult
         /\ response' = NoResponse
         /\ wr' = "none"
         /\ IF l.k = "nonutf8" \/ trim_is_empty(l)
            THEN pc' = "read" /\ stop' = stop
            ELSE pc' = "dispatch" /\ stop' = stop
    /\ UNCHANGED <<calls, stdout, pipe, lock, epc, emsg, codec, acquired>>

\* for line in stdin.lock().lines(): the next line is one of L.  A failed
\* read breaks out of the loop, a blank line is skipped.
ReadLine(L) ==
    /\ pc = "read"
    /\ lineNo < MaxLines
    /\ \E l \in L :
         /\ lineNo' = lineNo + 1
         /\ line' = l
         /\ hres' = NoResult
         /\ response' = NoResponse
         /\ wr' = "none"
         /\ IF l.k = "nonutf8"
            THEN pc' = "stopped" /\ stop' = "read_error"
            ELSE IF trim_is_empty(l)
            THEN pc' = "read" /\ stop' = stop
            ELSE pc' = "dispatch" /\ stop' = stop
    /\ UNCHANGED <<calls, stdout, pipe, lock, epc, emsg, codec, acquired>>

\* An end of input that runs the handler's cleanup before the loop is left.
ReadEof_cleanup ==
    /\ pc = "read"
    /\ pc' = "stopped"
    /\ stop' = "eof"
    /\ calls' = Append(calls, Call("shutdown", 0, "", Null))
    /\ UNCHANGED <<lineNo, line, hres, response, wr, stdout, pipe, lock, epc, emsg, codec, acquired>>

\* The iterator ends: stdin was closed.
ReadEof ==
    /\ pc = "read"
    /\ pc' = "stopped"
    /\ stop' = "eof"
    /\ UNCHANGED <<lineNo, line, hres, response, wr, calls, stdout, pipe, lock, epc, emsg, codec, acquired>>

\* A parse-error answer that echoes the request_id found on the line.
parse_error_response_echo(l) ==
    error(IF l.k = "json" /\ "request_id" \in DOMAIN l.o /\ l.o["request_id"].t = "str"
          THEN l.o["request_id"].s ELSE "",
          "Parse error")

\* Err(e) => GamepackResponse::error("", format!("Parse error: {}", e))
parse_error_response(l) == error("", "Parse error")

\* A dispatch that remembers whether init was called and answers every
\* other command before it with an Error.
Dispatch_ordered ==
    /\ pc = "dispatch"
    /\ LET parsed == from_str(line) IN
         IF parsed.ok
         THEN \E h \in HandlerResults(parsed.cmd) :
                LET d == dispatch_command(parsed.cmd, h) IN
                  IF parsed.cmd.variant = "Init"
                     \/ \E i \in DOMAIN calls : calls[i].method = "init"
                  THEN /\ hres' = h
                       /\ response' = d.response
                       /\ calls' = calls \o d.calls
                  ELSE /\ hres' = h
                       /\ response' = error(request_id(parsed.cmd), "not initialized")
                       /\ calls' = calls
         ELSE /\ hres' = hres
              /\ response' = parse_error_response(line)
              /\ calls' = calls
    /\ pc' = "write"
    /\ UNCHANGED <<stop, lineNo, line, wr, stdout, pipe, lock, epc, emsg, codec, acquired>>

\* match serde_json::from_str(&line): dispatch the command, or answer a
\* parse error with an Error whose request_id is empty.
Dispatch ==
    /\ pc = "dispatch"
    /\ LET parsed == from_str(line) IN
         IF parsed.ok
         THEN \E h \in HandlerResults(parsed.cmd) :
                LET d == dispatch_command(parsed.cmd, h) IN
                  /\ hres' = h
                  /\ response' = d.response
                  /\ calls' = calls \o d.calls
         ELSE /\ hres' = hres
              /\ response' = parse_error_response(line)
              /\ calls' = calls
    /\ pc' = "write"
    /\ UNCHANGED <<stop, lineNo, line, wr, stdout, pipe, lock, epc, emsg, codec, acquired>>

\* The SessionEnd arm of dispatch_command where serde_json::to_value(m)
\* returns Err for the MatchData the handler gave.  The derived Serialize of
\* MatchData gives no Err for any value it holds; this step is what
\* unwrap_or_default does were an Err returned.
DispatchToValueFails ==
    /\ pc = "dispatch"
    /\ LET parsed == from_str(line) IN
         /\ parsed.ok
         /\ parsed.cmd.variant = "SessionEnd"
         /\ \E h \in HandlerResults(parsed.cmd) :
              /\ h.match_data # None
              /\ LET d == session_end(request_id(parsed.cmd), parsed.cmd.context,
                                      { Err : m \in h.match_data })
                 IN /\ hres' = [match_data |-> h.match_data, to_value |-> Err]
                    /\ response' = d.response
                    /\ calls' = calls \o d.calls
    /\ pc' = "write"
    /\ UNCHANGED <<stop, lineNo, line, wr, stdout, pipe, lock, epc, emsg, codec, acquired>>

\* if let Ok(json) = to_string(&response) { let _ = writeln!(stdout, ...) }:
\* the result of the write is ignored.
LoopWrite ==
    /\ pc = "write"
    /\ LET ser == to_string(response) IN
         IF ser.ok
         THEN /\ pc' = "flush"
              /\ IF pipe = "open"
                 THEN stdout' = stdout \o writeln("loop", lineNo, ser.json) /\ wr' = "ok"
                 ELSE stdout' = stdout /\ wr' = "err"
         ELSE pc' = "check" /\ stdout' = stdout /\ wr' = wr
    /\ UNCHANGED <<stop, lineNo, line, hres, response, calls, pipe, lock, epc, emsg, codec, acquired>>

\* let _ = stdout.flush();
LoopFlush ==
    /\ pc = "flush"
    /\ pc' = "check"
    /\ UNCHANGED <<stop, lineNo, line, hres, response, wr, calls, stdout, pipe, lock, epc, emsg, codec, acquired>>

\* A check that also leaves the loop on an Error response.
LoopCheck_err ==
    /\ pc = "check"
    /\ IF response.variant \in {"ShutdownComplete", "Error"}
       THEN pc' = "stopped" /\ stop' = "shutdown"
       ELSE pc' = "read" /\ stop' = stop
    /\ UNCHANGED <<lineNo, line, hres, response, wr, calls, stdout, pipe, lock, epc, emsg, codec, acquired>>

\* A check that never leaves the loop.
LoopCheck_nobreak ==
    /\ pc = "check"
    /\ pc' = "read"
    /\ UNCHANGED <<stop, lineNo, line, hres, response, wr, calls, stdout, pipe, lock, epc, emsg, codec, acquired>>

\* if matches!(response, ShutdownComplete { .. }) { break; }
LoopCheck ==
    /\ pc = "check"
    /\ IF response.variant = "ShutdownComplete"
       THEN pc' = "stopped" /\ stop' = "shutdown"
       ELSE pc' = "read" /\ stop' = stop
    /\ UNCHANGED <<lineNo, line, hres, response, wr, calls, stdout, pipe, lock, epc, emsg, codec, acquired>>

(* ------------------------------------------------------------------ *)
(* runner.rs: emit_match_data                                          *)
(* ------------------------------------------------------------------ *)

\* A producer calls emit_match_data(message) with one of M: the message is
\* wrapped in WriteMatchData and serialized.
EmitCall(p, M) ==
    /\ epc[p] = "idle"
    /\ \E m \in M :
         /\ emsg' = [emsg EXCEPT ![p] = m]
         /\ epc' = [epc EXCEPT ![p] =
                      IF to_string([variant |-> "WriteMatchData", message |-> m]).ok
                      THEN "lock" ELSE "done"]
    /\ UNCHANGED <<pc, stop, lineNo, line, hres, response, wr, calls, stdout, pipe, lock, codec, acquired>>

\* A lock() that does not wait for the mutex to be free.
EmitLock_nowait(p) ==
    /\ epc[p] = "lock"
    /\ lock' = p
    /\ epc' = [epc EXCEPT ![p] = "write"]
    /\ acquired' = Append(acquired, p)
    /\ UNCHANGED <<pc, stop, lineNo, line, hres, response, wr, calls, stdout, pipe, emsg, codec>>

\* let _lock = STDOUT_LOCK.lock(): blocks until the mutex is free.
EmitLock(p) ==
    /\ epc[p] = "lock"
    /\ lock = 0
    /\ lock' = p
    /\ epc' = [epc EXCEPT ![p] = "write"]
    /\ acquired' = Append(acquired, p)
    /\ UNCHANGED <<pc, stop, lineNo, line, hres, response, wr, calls, stdout, pipe, emsg, codec>>

\* A writeln that puts its line before what is already on the output.
EmitWrite_front(p) ==
    /\ epc[p] = "write"
    /\ stdout' = IF pipe = "open"
                 THEN writeln("emit", p,
                        to_string([variant |-> "WriteMatchData", message |-> emsg[p]]).json)
                      \o stdout
                 ELSE stdout
    /\ epc' = [epc EXCEPT ![p] = "flush"]
    /\ UNCHANGED <<pc, stop, lineNo, line, wr, hres, response, calls, pipe, lock, emsg, codec, acquired>>

\* A writeln that writes nothing once run_gamepack has returned.
EmitWrite_stopped(p) ==
    /\ epc[p] = "write"
    /\ stdout' = IF pipe = "open" /\ pc # "stopped"
                 THEN stdout \o writeln("emit", p,
                        to_string([variant |-> "WriteMatchData", message |-> emsg[p]]).json)
                 ELSE stdout
    /\ epc' = [epc EXCEPT ![p] = "flush"]
    /\ UNCHANGED <<pc, stop, lineNo, line, hres, response, wr, calls, pipe, lock, emsg, codec, acquired>>

\* let _ = writeln!(stdout, "{}", json);
EmitWrite(p) ==
    /\ epc[p] = "write"
    /\ stdout' = IF pipe = "open"
                 THEN stdout \o writeln("emit", p,
                        to_string([variant |-> "WriteMatchData", message |-> emsg[p]]).json)
                 ELSE stdout
    /\ epc' = [epc EXCEPT ![p] = "flush"]
    /\ UNCHANGED <<pc, stop, lineNo, line, hres, response, wr, calls, pipe, lock, emsg, codec, acquired>>

\* let _ = stdout.flush();
EmitFlush(p) ==
    /\ epc[p] = "flush"
    /\ epc' = [epc EXCEPT ![p] = "unlock"]
    /\ UNCHANGED <<pc, stop, lineNo, line, hres, response, wr, calls, stdout, pipe, lock, emsg, codec, acquired>>

\* A return from emit_match_data that keeps the mutex.
EmitUnlock_keep(p) ==
    /\ epc[p] = "unlock"
    /\ lock' = lock
    /\ epc' = [epc EXCEPT ![p] = "done"]
    /\ UNCHANGED <<pc, stop, lineNo, line, hres, response, wr, calls, stdout, pipe, emsg, codec, acquired>>

\* The guard _lock goes out of scope: the mutex is released.
EmitUnlock(p) ==
    /\ epc[p] = "unlock"
    /\ lock' = 0
    /\ epc' = [epc EXCEPT ![p] = "done"]
    /\ UNCHANGED <<pc, stop, lineNo, line, hres, response, wr, calls, stdout, pipe, emsg, codec, acquired>>

(* ------------------------------------------------------------------ *)
(* emit_match_data called by a handler method                          *)
(* ------------------------------------------------------------------ *)
\* A handler method runs on the thread of run_gamepack, inside
\* dispatch_command; it may call emit_match_data before it returns.  The
\* loop is then at "h_lock", "h_write", "h_flush" and "h_unlock" (the steps of
\* emit_match_data) and at "h_return" (back in the handler method).

\* The thread of run_gamepack as a holder of STDOUT_LOCK.
MainThread == NumProducers + 1

\* dispatch_command calls a handler method for cmd.
CallsHandler(cmd) == cmd.variant \notin {"GetMatchTimeline", "GetSampleMatchData"}

\* The handler method called for the current command calls
\* emit_match_data(message) with one of M.
HandlerEmitCall(M) ==
    /\ pc = "dispatch"
    /\ from_str(line).ok /\ CallsHandler(from_str(line).cmd)
    /\ \E m \in M :
         /\ hres' = [emitting |-> m]
         /\ pc' = IF to_string([variant |-> "WriteMatchData", message |-> m]).ok
                  THEN "h_lock" ELSE "h_return"
    /\ UNCHANGED <<stop, lineNo, line, response, wr, calls, stdout, pipe, lock, epc, emsg, codec, acquired>>

\* A lock() in a loop that took STDOUT_LOCK for the whole iteration: the
\* mutex is not reentrant and the thread waits for itself.
HandlerEmitLock_held ==
    /\ pc = "h_lock"
    /\ lock = 0
    /\ lock' = MainThread
    /\ pc' = "h_lock"
    /\ acquired' = acquired
    /\ UNCHANGED <<stop, lineNo, line, hres, response, wr, calls, stdout, pipe, epc, emsg, codec>>

\* let _lock = STDOUT_LOCK.lock(), on the thread of run_gamepack: blocks
\* until the mutex is free.  run_gamepack itself never takes it.
HandlerEmitLock ==
    /\ pc = "h_lock"
    /\ lock = 0
    /\ lock' = MainThread
    /\ pc' = "h_write"
    /\ acquired' = Append(acquired, MainThread)
    /\ UNCHANGED <<stop, lineNo, line, hres, response, wr, calls, stdout, pipe, epc, emsg, codec>>

\* let _ = writeln!(stdout, "{}", json);
HandlerEmitWrite ==
    /\ pc = "h_write"
    /\ stdout' = IF pipe = "open"
                 THEN stdout \o writeln("handler", lineNo,
                        to_string([variant |-> "WriteMatchData",
                                   message |-> hres.emitting]).json)
                 ELSE stdout
    /\ pc' = "h_flush"
    /\ UNCHANGED <<stop, lineNo, line, hres, response, wr, calls, pipe, lock, epc, emsg, codec, acquired>>

\* let _ = stdout.flush();
HandlerEmitFlush ==
    /\ pc = "h_flush"
    /\ pc' = "h_unlock"
    /\ UNCHANGED <<stop, lineNo, line, hres, response, wr, calls, stdout, pipe, lock, epc, emsg, codec, acquired>>

\* The guard _lock goes out of scope and emit_match_data returns to the
\* handler method.
HandlerEmitUnlock ==
    /\ pc = "h_unlock"
    /\ lock' = 0
    /\ pc' = "h_return"
    /\ UNCHANGED <<stop, lineNo, line, hres, response, wr, calls, stdout, pipe, epc, emsg, codec, acquired>>

\* The handler method returns and dispatch_command builds the response.
HandlerReturn ==
    /\ pc = "h_return"
    /\ LET parsed == from_str(line) IN
         \E h \in HandlerResults(parsed.cmd) :
           LET d == dispatch_command(parsed.cmd, h) IN
             /\ hres' = h
             /\ response' = d.response
             /\ calls' = calls \o d.calls
    /\ pc' = "write"
    /\ UNCHANGED <<stop, lineNo, line, wr, stdout, pipe, lock, epc, emsg, codec, acquired>>

(* ------------------------------------------------------------------ *)
(* The Err branch of serde_json::to_string                             *)
(* ------------------------------------------------------------------ *)
\* to_string returns a Result.  The derived Serialize of the protocol's
\* types gives no Err for any value they hold; the steps below are what
\* `if let Ok(json) = ...` does were an Err returned, whatever the value.

\* A failed serialization that leaves the loop.
LoopSerializeFails_stop ==
    /\ pc = "write"
    /\ response # NoResponse
    /\ pc' = "stopped"
    /\ stop' = "read_error"
    /\ UNCHANGED <<lineNo, line, hres, response, wr, calls, stdout, pipe, lock, epc, emsg, codec, acquired>>

\* run_gamepack: to_string(&response) is Err, the body of the if let is
\* skipped and the loop goes to its shutdown check.
LoopSerializeFails ==
    /\ pc = "write"
    /\ response # NoResponse
    /\ pc' = "check"
    /\ UNCHANGED <<stop, lineNo, line, hres, response, wr, calls, stdout, pipe, lock, epc, emsg, codec, acquired>>

\* emit_match_data: to_string(&response) is Err, the body of the if let is
\* skipped (no lock taken, nothing written) and the function returns.
EmitSerializeFails(p, M) ==
    /\ epc[p] = "idle"
    /\ \E m \in M :
         /\ emsg' = [emsg EXCEPT ![p] = m]
         /\ epc' = [epc EXCEPT ![p] = "done"]
    /\ UNCHANGED <<pc, stop, lineNo, line, hres, response, wr, calls, stdout, pipe, lock, codec, acquired>>

(* ------------------------------------------------------------------ *)
(* The daemon's end of the pipe                                        *)
(* ------------------------------------------------------------------ *)

\* The daemon closes its end of the output pipe: later writes fail.
BreakPipe ==
    /\ pipe = "open"
    /\ pipe' = "broken"
    /\ UNCHANGED <<pc, stop, lineNo, line, hres, response, wr, calls, stdout, lock, epc, emsg, codec, acquired>>

(* ------------------------------------------------------------------ *)
(* Serialization and deserialization of the values of the protocol     *)
(* ------------------------------------------------------------------ *)

\* Values of GamepackCommand: every variant, with its optional members
\* absent and present.
CommandValues ==
    { Command(v, rid, Null, "", 0, "", None, None) :
        v \in {"Init", "DetectRunning", "GetStatus", "PollEvents", "GetLiveData",
               "SessionStart", "Shutdown"}, rid \in RequestIds }
    \cup { Command("SessionEnd", "r1", c, "", 0, "", None, None) :
             c \in {Obj("{\"started\":true}"), Null} }
    \cup { Command("ResolveEventIcon", "r1", Null, "ChampionKill", 0, "", None, None) }
    \cup { Command("IsMatchInProgress", "r1", Null, "", sub, "m1", None, None) :
             sub \in {0, 255} }
    \cup { Command("GetMatchTimeline", "r2", Null, "", 1, "m2", types, lim) :
             types \in {None, Some("[\"event\"]")}, lim \in {None, Some(10)} }
    \cup { Command("GetSampleMatchData", "r1", Null, "", sub, "", None, None) :
             sub \in {0, 1} }

\* Values of MatchDataMessage: those of the round-trip test of types.rs,
\* a WriteStatistics with played_at, and one whose game time is not finite.
MessageValues ==
    Messages \cup
    { set_complete_with_stats(0, "m1", "LiveFallback", Leaf(Obj("{\"kills\":10}"))),
      write_statistics_with_time(1, "m2", "2024-01-15T10:30:00Z", F64(12),
                                 Leaf(Obj("{\"kills\":1}"))),
      write_game_events(0, "m1",
          <<with_pre_capture(GameEvent_new("Kill", F64(50), Leaf(Obj("{}"))), F64(10)),
            GameEvent_new("DragonKill", F64(60), Leaf(Null))>>),
      write_statistics(0, "m1", NaN, Leaf(Obj("{}"))) }

\* Values of serde_json::Value an optional payload may hold: an object, or null.
ValueValues == Payloads \cup {Leaf(Null)}

\* Values of GamepackResponse: every variant, with its optional members
\* absent and present.
ResponseValues ==
    { [variant |-> "Initialized", request_id |-> "r1", game_id |-> 99,
       slug |-> "test", protocol_version |-> 1] }
    \cup { [variant |-> "RunningStatus", request_id |-> "r1", running |-> b] :
             b \in BOOLEAN }
    \cup { [variant |-> "GameStatus", request_id |-> "r1", connected |-> TRUE,
            connection_status |-> "Connected", game_phase |-> ph,
            is_in_game |-> FALSE] : ph \in {None, Some("Lobby")} }
    \cup { [variant |-> "Events", request_id |-> "r1", events |-> es] :
             es \in {<< >>,
                     <<GameEvent_new("ChampionKill", F64(100), Leaf(Obj("{}")))>>,
                     <<GameEvent_new("ChampionKill", NaN, Leaf(Obj("{}")))>>} }
    \cup { [variant |-> "LiveData", request_id |-> "r1", data |-> d] :
             d \in {None} \cup {Some(v) : v \in ValueValues} }
    \cup { [variant |-> "SessionStarted", request_id |-> "r1", context |-> d] :
             d \in {None} \cup {Some(v) : v \in ValueValues} }
    \cup { [variant |-> "SessionEnded", request_id |-> "r1", match_data |-> d] :
             d \in {None, Some(Leaf(Null))} \cup {Some(to_value(m)) : m \in MatchDatas} }
    \cup { [variant |-> "Error", request_id |-> "", message |-> "Parse error",
            code |-> c] : c \in {None, Some("E_INIT")} }
    \cup { [variant |-> "ShutdownComplete", request_id |-> "r1"] }
    \cup { [variant |-> "EventIconResolved", request_id |-> "r1",
            event_key |-> "ChampionKill", icon_url |-> u] :
             u \in {None, Some("icon.png")} }
    \cup { [variant |-> "MatchInProgressStatus", request_id |-> "r1",
            still_playing |-> r.still_playing, set_complete |-> r.set_complete] :
             r \in {still_playing, ended,
                    ended_with_stats(set_complete(0, "m1", "Api")),
                    ended_with_stats(set_complete_with_stats(0, "m1", "Api",
                                         Leaf(Obj("{\"kills\":10}"))))} }
    \cup { match_timeline("r1"),
           [variant |-> "MatchTimeline", request_id |-> "r1", found |-> TRUE,
            entries |-> <<TimelineEntry_event("ChampionKill", F64(100),
                              "2024-01-15T10:30:00Z", Leaf(Obj("{}"))),
                          TimelineEntry_moment("pentakill", F64(1500),
                              "2024-01-15T10:55:00Z", Leaf(Obj("{}")), TRUE)>>] }
    \cup { [variant |-> "WriteMatchData", message |-> m] : m \in MessageValues }
    \cup { [variant |-> "SampleMatchData", request_id |-> "r1", subpack |-> 0,
            data |-> v] : v \in ValueValues }

\* The codec serializes a value x of kind op into text.
Serialize(op, x, text) ==
    /\ codec.st = "idle"
    /\ codec' = [op |-> op, st |-> "serialized", x |-> x, text |-> text,
                 back |-> Nothing]
    /\ UNCHANGED <<pc, stop, lineNo, line, hres, response, wr, calls, stdout, pipe, lock, epc, emsg, acquired>>

\* serde_json::to_string(&command), as the daemon does before it sends.
SerializeCommand == \E c \in CommandValues : Serialize("command", c, Json(command_to_json(c)))

\* serde_json::to_string(&response)
SerializeResponse == \E r \in ResponseValues : Serialize("response", r, to_json(r))

\* serde_json::to_string(&message)
SerializeMessage == \E m \in MessageValues : Serialize("message", m, message_to_json(m))

\* ---- Text forms of EntryType and SummarySource (types.rs:17-43) ----
\* Text is a sequence of one-character strings, so that the renaming rules
\* and the comparison of letters are computed and not assumed.

UpperLetters ==
    <<"A", "B", "C", "D", "E", "F", "G", "H", "I", "J", "K", "L", "M",
      "N", "O", "P", "Q", "R", "S", "T", "U", "V", "W", "X", "Y", "Z">>

LowerLetters ==
    <<"a", "b", "c", "d", "e", "f", "g", "h", "i", "j", "k", "l", "m",
      "n", "o", "p", "q", "r", "s", "t", "u", "v", "w", "x", "y", "z">>

is_uppercase(c) == \E i \in DOMAIN UpperLetters : UpperLetters[i] = c

is_lowercase(c) == \E i \in DOMAIN LowerLetters : LowerLetters[i] = c

to_ascii_lowercase(c) ==
    IF is_uppercase(c)
    THEN LowerLetters[CHOOSE i \in DOMAIN UpperLetters : UpperLetters[i] = c]
    ELSE c

to_ascii_uppercase(c) ==
    IF is_lowercase(c)
    THEN UpperLetters[CHOOSE i \in DOMAIN LowerLetters : LowerLetters[i] = c]
    ELSE c

\* The string of a text.
RECURSIVE Text(_)
Text(cs) == IF cs = << >> THEN "" ELSE cs[1] \o Text(Tail(cs))

\* The identifiers of the variants of the enums of the protocol.
Enums == {"EntryType", "SummarySource"}

EnumVariants(enum) ==
    IF enum = "EntryType" THEN {"Event", "Statistic", "Moment"}
    ELSE {"Api", "LiveFallback"}

Ident(variant) ==
    CASE variant = "Event" -> <<"E", "v", "e", "n", "t">>
      [] variant = "Statistic" -> <<"S", "t", "a", "t", "i", "s", "t", "i", "c">>
      [] variant = "Moment" -> <<"M", "o", "m", "e", "n", "t">>
      [] variant = "Api" -> <<"A", "p", "i">>
      [] variant = "LiveFallback" ->
           <<"L", "i", "v", "e", "F", "a", "l", "l", "b", "a", "c", "k">>
      [] variant = "Init" ->
           <<"I", "n", "i", "t">>
      [] variant = "DetectRunning" ->
           <<"D", "e", "t", "e", "c", "t",
             "R", "u", "n", "n", "i", "n", "g">>
      [] variant = "GetStatus" ->
           <<"G", "e", "t", "S", "t", "a", "t", "u", "s">>
      [] variant = "PollEvents" ->
           <<"P", "o", "l", "l", "E", "v", "e", "n", "t", "s">>
      [] variant = "GetLiveData" ->
           <<"G", "e", "t", "L", "i", "v", "e", "D", "a", "t", "a">>
      [] variant = "SessionStart" ->
           <<"S", "e", "s", "s", "i", "o",
             "n", "S", "t", "a", "r", "t">>
      [] variant = "SessionEnd" ->
           <<"S", "e", "s", "s", "i", "o", "n", "E", "n", "d">>
      [] variant = "Shutdown" ->
           <<"S", "h", "u", "t", "d", "o", "w", "n">>
      [] variant = "ResolveEventIcon" ->
           <<"R", "e", "s", "o", "l", "v", "e", "E",
             "v", "e", "n", "t", "I", "c", "o", "n">>
      [] variant = "IsMatchInProgress" ->
           <<"I", "s", "M", "a", "t", "c", "h", "I",
             "n", "P", "r", "o", "g", "r", "e", "s", "s">>
      [] variant = "GetMatchTimeline" ->
           <<"G", "e", "t", "M", "a", "t", "c", "h",
             "T", "i", "m", "e", "l", "i", "n", "e">>
      [] variant = "GetSampleMatchData" ->
           <<"G", "e", "t", "S", "a", "m", "p", "l", "e",
             "M", "a", "t", "c", "h", "D", "a", "t", "a">>
      [] variant = "Initialized" ->
           <<"I", "n", "i", "t", "i", "a", "l", "i", "z", "e", "d">>
      [] variant = "RunningStatus" ->
           <<"R", "u", "n", "n", "i", "n",
             "g", "S", "t", "a", "t", "u", "s">>
      [] variant = "GameStatus" ->
           <<"G", "a", "m", "e", "S", "t", "a", "t", "u", "s">>
      [] variant = "Events" ->
           <<"E", "v", "e", "n", "t", "s">>
      [] variant = "LiveData" ->
           <<"L", "i", "v", "e", "D", "a", "t", "a">>
      [] variant = "SessionStarted" ->
           <<"S", "e", "s", "s", "i", "o", "n",
             "S", "t", "a", "r", "t", "e", "d">>
      [] variant = "SessionEnded" ->
           <<"S", "e", "s", "s", "i", "o",
             "n", "E", "n", "d", "e", "d">>
      [] variant = "Error" ->
           <<"E", "r", "r", "o", "r">>
      [] variant = "ShutdownComplete" ->
           <<"S", "h", "u", "t", "d", "o", "w", "n",
             "C", "o", "m", "p", "l", "e", "t", "e">>
      [] variant = "EventIconResolved" ->
           <<"E", "v", "e", "n", "t", "I", "c", "o",
             "n", "R", "e", "s", "o", "l", "v", "e", "d">>
      [] variant = "MatchInProgressStatus" ->
           <<"M", "a", "t", "c", "h", "I", "n", "P", "r", "o",
             "g", "r", "e", "s", "s", "S", "t", "a", "t", "u", "s">>
      [] variant = "MatchTimeline" ->
           <<"M", "a", "t", "c", "h", "T",
             "i", "m", "e", "l", "i", "n", "e">>
      [] variant = "WriteMatchData" ->
           <<"W", "r", "i", "t", "e", "M", "a",
             "t", "c", "h", "D", "a", "t", "a">>
      [] variant = "SampleMatchData" ->
           <<"S", "a", "m", "p", "l", "e", "M",
             "a", "t", "c", "h", "D", "a", "t", "a">>
      [] variant = "WriteStatistics" ->
           <<"W", "r", "i", "t", "e", "S", "t",
             "a", "t", "i", "s", "t", "i", "c", "s">>
      [] variant = "WriteGameEvents" ->
           <<"W", "r", "i", "t", "e", "G", "a",
             "m", "e", "E", "v", "e", "n", "t", "s">>
      [] variant = "WriteMoments" ->
           <<"W", "r", "i", "t", "e", "M",
             "o", "m", "e", "n", "t", "s">>
      [] variant = "SetComplete" ->
           <<"S", "e", "t", "C", "o", "m", "p", "l", "e", "t", "e">>

\* A renaming that lowers the letters and puts no underscore.
RECURSIVE serde_snake_case_flat(_, _)
serde_snake_case_flat(ident, i) ==
    IF i > Len(ident) THEN << >>
    ELSE <<to_ascii_lowercase(ident[i])>> \o serde_snake_case_flat(ident, i + 1)

\* #[serde(rename_all = "snake_case")] on variants: an underscore before
\* every upper-case letter but the first, every letter lowered.
RECURSIVE serde_snake_case(_, _)
serde_snake_case(ident, i) ==
    IF i > Len(ident) THEN << >>
    ELSE (IF i > 1 /\ is_uppercase(ident[i]) THEN <<"_">> ELSE << >>)
         \o <<to_ascii_lowercase(ident[i])>> \o serde_snake_case(ident, i + 1)

\* The words strum's snake_case (heck) cuts an identifier into: a boundary
\* after a lower-case letter followed by an upper-case one, and before the
\* last upper-case letter of a run that a lower-case letter follows.
RECURSIVE heck_words(_, _, _, _)
heck_words(w, i, init, mode) ==
    IF i > Len(w) THEN << >>
    ELSE IF i = Len(w) THEN <<SubSeq(w, init, Len(w))>>
    ELSE LET c == w[i]
             next == w[i + 1]
             next_mode == IF is_lowercase(c) THEN "Lowercase"
                          ELSE IF is_uppercase(c) THEN "Uppercase" ELSE mode
         IN
         IF next_mode = "Lowercase" /\ is_uppercase(next)
         THEN <<SubSeq(w, init, i)>> \o heck_words(w, i + 1, i + 1, "Boundary")
         ELSE IF mode = "Uppercase" /\ is_uppercase(c) /\ is_lowercase(next)
         THEN <<SubSeq(w, init, i - 1)>> \o heck_words(w, i + 1, i, "Boundary")
         ELSE heck_words(w, i + 1, init, next_mode)

\* #[strum(serialize_all = "snake_case")]: the words lowered and joined by
\* underscores.
RECURSIVE join_lowered(_, _)
join_lowered(words, k) ==
    IF k > Len(words) THEN << >>
    ELSE (IF k > 1 THEN <<"_">> ELSE << >>)
         \o [j \in DOMAIN words[k] |-> to_ascii_lowercase(words[k][j])]
         \o join_lowered(words, k + 1)

strum_snake_case(ident) == join_lowered(heck_words(ident, 1, 1, "Boundary"), 1)

\* Display (strum): the serialized name of the variant.
enum_to_string(variant) == strum_snake_case(Ident(variant))

\* Serialize (serde): the renamed variant, as the content of a JSON string.
enum_to_json(variant) == serde_snake_case(Ident(variant), 1)

\* Two texts that differ in nothing at all.
eq_exact(a, b) == a = b

\* str::eq_ignore_ascii_case
eq_ignore_ascii_case(a, b) ==
    /\ Len(a) = Len(b)
    /\ \A i \in DOMAIN a : to_ascii_lowercase(a[i]) = to_ascii_lowercase(b[i])

\* FromStr (strum, ascii_case_insensitive): the variant whose serialized
\* name the text equals but for the case of its letters.
enum_from_str(enum, text) ==
    IF \E v \in EnumVariants(enum) : eq_ignore_ascii_case(text, enum_to_string(v))
    THEN Ok(CHOOSE v \in EnumVariants(enum) :
                eq_ignore_ascii_case(text, enum_to_string(v)))
    ELSE Err

\* Deserialize (serde): the variant whose renamed name is the text.
enum_from_json(enum, text) ==
    IF \E v \in EnumVariants(enum) : text = enum_to_json(v)
    THEN Ok(CHOOSE v \in EnumVariants(enum) : text = enum_to_json(v))
    ELSE Err

\* Writings of a text in upper- and lower-case letters: all lower, all
\* upper, and the letters from one position to another upper.
Casings(text) ==
    { [i \in DOMAIN text |-> IF from <= i /\ i <= to THEN to_ascii_uppercase(text[i])
                              ELSE to_ascii_lowercase(text[i])] :
        from \in DOMAIN text, to \in 0..Len(text) }

\* The texts given to from_str: every casing of every canonical form, the
\* identifiers themselves, and texts that name nothing.
EnumTexts ==
    UNION {Casings(enum_to_string(v)) : v \in EnumVariants("EntryType")}
    \cup UNION {Casings(enum_to_string(v)) : v \in EnumVariants("SummarySource")}
    \cup {Ident(v) : v \in EnumVariants("EntryType") \cup EnumVariants("SummarySource")}
    \cup {<< >>, <<"k", "i", "l", "l">>}

\* value.to_string()
DisplayEnum ==
    \E enum \in Enums : \E v \in EnumVariants(enum) :
        Serialize("display", [enum |-> enum, variant |-> v],
                  [enum |-> enum, chars |-> enum_to_string(v)])

\* serde_json::to_string(&value), without the quotes
SerializeEnum ==
    \E enum \in Enums : \E v \in EnumVariants(enum) :
        Serialize("json", [enum |-> enum, variant |-> v],
                  [enum |-> enum, chars |-> enum_to_json(v)])

\* A text arrives for T::from_str.
ReceiveText ==
    \E enum \in Enums : \E t \in EnumTexts :
        Serialize("text", Nothing, [enum |-> enum, chars |-> t])

\* ---- The text of a written line (serde_json's compact writer) ----

\* The characters of the texts written: a letter, the characters the writer
\* must escape, and a space.
TextChars == {"a", " ", "\n", "\r", "\t", "\"", "\\"}

\* The texts of at most MaxText characters.
Texts == UNION {[1..n -> TextChars] : n \in 0..MaxText}

\* A writer that escapes quotes and backslashes only.
escape_quotes_only(c) ==
    CASE c = "\"" -> <<"\\", "\"">>
      [] c = "\\" -> <<"\\", "\\">>
      [] OTHER -> <<c>>

\* format_escaped_str_contents: what is written for one character of a
\* string.
escape(c) ==
    CASE c = "\"" -> <<"\\", "\"">>
      [] c = "\\" -> <<"\\", "\\">>
      [] c = "\n" -> <<"\\", "n">>
      [] c = "\r" -> <<"\\", "r">>
      [] c = "\t" -> <<"\\", "t">>
      [] OTHER -> <<c>>

RECURSIVE format_escaped_str_contents(_, _)
format_escaped_str_contents(chars, i) ==
    IF i > Len(chars) THEN << >>
    ELSE escape(chars[i]) \o format_escaped_str_contents(chars, i + 1)

\* format_escaped_str: a string between quotes.
format_escaped_str(chars) ==
    <<"\"">> \o format_escaped_str_contents(chars, 1) \o <<"\"">>

\* The character an escape stands for.
unescape(c) ==
    CASE c = "n" -> "\n"
      [] c = "r" -> "\r"
      [] c = "t" -> "\t"
      [] OTHER -> c

\* The reader of a string: the characters between the quotes, escapes
\* decoded.
RECURSIVE parse_str_contents(_, _)
parse_str_contents(text, i) ==
    IF i >= Len(text) THEN << >>
    ELSE IF text[i] = "\\"
    THEN <<unescape(text[i + 1])>> \o parse_str_contents(text, i + 2)
    ELSE <<text[i]>> \o parse_str_contents(text, i + 1)

parse_str(text) == parse_str_contents(text, 2)

\* The compact writer for an object of string members: no space and no
\* line break between the tokens.
RECURSIVE write_members(_, _)
write_members(members, k) ==
    IF k > Len(members) THEN << >>
    ELSE (IF k > 1 THEN <<",">> ELSE << >>)
         \o format_escaped_str(members[k][1]) \o <<":">>
         \o format_escaped_str(members[k][2])
         \o write_members(members, k + 1)

write_object(members) == <<"{">> \o write_members(members, 1) \o <<"}">>

\* An Error response with a code, as its members in order.
error_members(rid, message, code) ==
    << << <<"t", "y", "p", "e">>, serde_snake_case(Ident("Error"), 1) >>,
       << <<"r", "e", "q", "u", "e", "s", "t", "_", "i", "d">>, rid >>,
       << <<"m", "e", "s", "s", "a", "g", "e">>, message >>,
       << <<"c", "o", "d", "e">>, code >> >>

\* Command lines as a peer may write them: a GetMatchTimeline whose optional
\* members are each omitted, null, or present.
OptionalLines ==
    { Json(command_to_json(Command("GetMatchTimeline", "r1", Null, "", 0, "m1",
                                   None, None)) @@ types @@ lim) :
        types \in {EmptyObj, "entry_types" :> Null, "entry_types" :> Arr("[\"event\"]")},
        lim \in {EmptyObj, "limit" :> Null, "limit" :> Num(10)} }

\* MatchDataMessage documents as a peer may write them: the optional member
\* of each variant and of a GameEvent omitted, null, or present.
OptionalDocs ==
    { message_to_json(write_statistics(0, "m1", F64(12), Leaf(Obj("{}")))) @@ opt :
        opt \in {Omitted, At("played_at", Leaf(Null)),
                 At("played_at", Leaf(Str("2024-01-15T10:30:00Z")))} }
    \cup
    { message_to_json(set_complete(0, "m1", "Api")) @@ opt :
        opt \in {Omitted, At("final_stats", Leaf(Null)),
                 At("final_stats", Leaf(Obj("{\"kills\":10}")))} }
    \cup
    { message_to_json(write_game_events(0, "m1",
          <<GameEvent_new("Kill", F64(50), Leaf(Obj("{}")))>>)) @@ opt :
        opt \in {Omitted,
                 At("events", At("0", At("pre_capture_secs", Leaf(Null)))),
                 At("events", At("0", At("post_capture_secs", Leaf(Num(10)))))} }

\* A line arrives from the daemon.
ReceiveLine == \E l \in OptionalLines : Serialize("line", Nothing, l)

\* A document arrives from a gamepack.
ReceiveDocument == \E d \in OptionalDocs : Serialize("document", Nothing, d)

\* serde_json::from_str of the text the codec holds, into the type it was
\* written from.
Deserialize ==
    /\ codec.st = "serialized"
    /\ codec' = [codec EXCEPT !.st = "parsed",
                   !.back = CASE codec.op \in {"command", "line"} ->
                                   LET r == from_str(codec.text) IN
                                   IF r.ok THEN Ok(r.cmd) ELSE Err
                              [] codec.op = "response" -> from_json(codec.text)
                              [] codec.op \in {"message", "document"} ->
                                   parse_message(codec.text)
                              [] codec.op \in {"display", "text"} ->
                                   enum_from_str(codec.text.enum, codec.text.chars)
                              [] codec.op = "json" ->
                                   enum_from_json(codec.text.enum, codec.text.chars)]
    /\ UNCHANGED <<pc, stop, lineNo, line, hres, response, wr, calls, stdout, pipe, lock, epc, emsg, acquired>>

(* ------------------------------------------------------------------ *)
(* Specifications                                                      *)
(* ------------------------------------------------------------------ *)

\* The main loop alone, over the full input alphabet.
NextLoop ==
    \/ ReadLine(Lines)
    \/ ReadEof
    \/ Dispatch
    \/ LoopWrite
    \/ LoopFlush
    \/ LoopCheck
    \/ BreakPipe

SpecLoop == Init /\ [][NextLoop]_vars

\* The producers alone.
NextEmit ==
    \/ \E p \in Producers : EmitCall(p, Messages)
    \/ \E p \in Producers : EmitLock(p)
    \/ \E p \in Producers : EmitWrite(p)
    \/ \E p \in Producers : EmitFlush(p)
    \/ \E p \in Producers : EmitUnlock(p)
    \/ BreakPipe

SpecEmit == Init /\ [][NextEmit]_vars

\* The main loop and the producers together.
Next ==
    \/ ReadLine(CoreLines)
    \/ ReadEof
    \/ Dispatch
    \/ LoopWrite
    \/ LoopFlush
    \/ LoopCheck
    \/ \E p \in Producers : EmitCall(p, CoreMessages)
    \/ \E p \in Producers : EmitLock(p)
    \/ \E p \in Producers : EmitWrite(p)
    \/ \E p \in Producers : EmitFlush(p)
    \/ \E p \in Producers : EmitUnlock(p)
    \/ BreakPipe

Spec == Init /\ [][Next]_vars

\* The lines of a session: SessionStart and SessionEnd, the latter with an
\* object for context or with null.
SessionLines ==
    { Json(WellFormed(v, rid)) : v \in {"SessionStart", "SessionEnd"}, rid \in RequestIds }

\* The main loop on the lines of a session, with a to_value that may return
\* Err.
NextSession ==
    \/ ReadLine(SessionLines)
    \/ ReadEof
    \/ Dispatch
    \/ DispatchToValueFails
    \/ LoopWrite
    \/ LoopFlush
    \/ LoopCheck
    \/ BreakPipe

SpecSession == Init /\ [][NextSession]_vars

\* The main loop and the producers with a to_string that may return Err,
\* the daemon keeping its end of the pipe open.
NextFallible ==
    \/ ReadLine(CoreLines)
    \/ ReadEof
    \/ Dispatch
    \/ LoopWrite
    \/ LoopSerializeFails
    \/ LoopFlush
    \/ LoopCheck
    \/ \E p \in Producers : EmitCall(p, CoreMessages)
    \/ \E p \in Producers : EmitSerializeFails(p, CoreMessages)
    \/ \E p \in Producers : EmitLock(p)
    \/ \E p \in Producers : EmitWrite(p)
    \/ \E p \in Producers : EmitFlush(p)
    \/ \E p \in Producers : EmitUnlock(p)

SpecFallible == Init /\ [][NextFallible]_vars

\* The producers with a to_string that may return Err and a pipe that may
\* break.
NextEmitFair ==
    \/ \E p \in Producers : EmitCall(p, CoreMessages)
    \/ \E p \in Producers : EmitSerializeFails(p, CoreMessages)
    \/ \E p \in Producers : EmitLock(p)
    \/ \E p \in Producers : EmitWrite(p)
    \/ \E p \in Producers : EmitFlush(p)
    \/ \E p \in Producers : EmitUnlock(p)
    \/ BreakPipe

\* Every producer thread that can take its next step inside emit_match_data
\* eventually takes it: the scheduler runs every runnable thread, and a
\* thread blocked in lock() is woken when the mutex is released.
FairEmit ==
    \A p \in Producers :
        /\ WF_vars(EmitLock(p))
        /\ WF_vars(EmitWrite(p))
        /\ WF_vars(EmitFlush(p))
        /\ WF_vars(EmitUnlock(p))

SpecEmitFair == Init /\ [][NextEmitFair]_vars /\ FairEmit

\* The lines answered by a handler method that emits.
ReentrantLines == { Json(WellFormed(v, "r1")) : v \in {"DetectRunning", "Shutdown"} }

\* The main loop with handler methods that may call emit_match_data, and
\* the producers, the daemon keeping its end of the pipe open.
NextReentrant ==
    \/ ReadLine(ReentrantLines)
    \/ ReadEof
    \/ Dispatch
    \/ HandlerEmitCall(CoreMessages)
    \/ HandlerEmitLock
    \/ HandlerEmitWrite
    \/ HandlerEmitFlush
    \/ HandlerEmitUnlock
    \/ HandlerReturn
    \/ LoopWrite
    \/ LoopFlush
    \/ LoopCheck
    \/ \E p \in Producers : EmitCall(p, CoreMessages)
    \/ \E p \in Producers : EmitLock(p)
    \/ \E p \in Producers : EmitWrite(p)
    \/ \E p \in Producers : EmitFlush(p)
    \/ \E p \in Producers : EmitUnlock(p)

\* Every thread inside emit_match_data that can take its next step
\* eventually takes it.
FairReentrant ==
    /\ FairEmit
    /\ WF_vars(HandlerEmitLock)
    /\ WF_vars(HandlerEmitWrite)
    /\ WF_vars(HandlerEmitFlush)
    /\ WF_vars(HandlerEmitUnlock)

SpecReentrant == Init /\ [][NextReentrant]_vars /\ FairReentrant

\* The lines that stop the loop.
StopLines == { Json(WellFormed("Shutdown", rid)) : rid \in RequestIds }

\* The main loop up to its stop, on Shutdown or on end of input, and the
\* producers, the daemon keeping its end of the pipe open.
NextAfterStop ==
    \/ ReadLine(StopLines)
    \/ ReadEof
    \/ Dispatch
    \/ LoopWrite
    \/ LoopFlush
    \/ LoopCheck
    \/ \E p \in Producers : EmitCall(p, CoreMessages)
    \/ \E p \in Producers : EmitLock(p)
    \/ \E p \in Producers : EmitWrite(p)
    \/ \E p \in Producers : EmitFlush(p)
    \/ \E p \in Producers : EmitUnlock(p)

SpecAfterStop == Init /\ [][NextAfterStop]_vars /\ FairEmit

\* The values of the protocol taken through serialization and parsing.
NextCodec ==
    \/ SerializeCommand
    \/ SerializeResponse
    \/ SerializeMessage
    \/ ReceiveLine
    \/ ReceiveDocument
    \/ DisplayEnum
    \/ SerializeEnum
    \/ ReceiveText
    \/ Deserialize

SpecCodec == Init /\ [][NextCodec]_vars

(* ------------------------------------------------------------------ *)
(* Properties                                                          *)
(* ------------------------------------------------------------------ *)

\* The result of parsing the current line.
Parsed == from_str(line)

\* The loop has a response for the current line and has not yet gone on.
Answering == pc \in {"write", "flush", "check"}

\* The loop took a step of its own.
LoopStep == pc' # pc \/ lineNo' # lineNo

\* The documents the loop has written, in order.
LoopDocs == SelectSeq(stdout, LAMBDA t : t.tok = "doc" /\ t.src = "loop")

\* The documents the producers have written, in order.
EmitDocs == SelectSeq(stdout, LAMBDA t : t.tok = "doc" /\ t.src = "emit")

\* The document the loop wrote for input line n, if any.
DocsOfLine(n) == SelectSeq(LoopDocs, LAMBDA t : t.n = n)

C2_ParseErrorStep ==
    (~trim_is_empty(line) /\ ~Parsed.ok /\ LoopStep) =>
        /\ calls' = calls
        /\ pc = "dispatch" =>
             /\ pc' = "write"
             /\ response'.variant = "Error" /\ response'.request_id = ""
             /\ response'.code = None
        /\ pc = "write" =>
             /\ pc' = "flush"
             /\ IF pipe = "open"
                THEN stdout' = stdout \o <<Doc("loop", lineNo, [type |-> "error", request_id |-> ""]), NL>>
                ELSE stdout' = stdout
        /\ pc = "flush" => (pc' = "check" /\ stdout' = stdout)
        /\ pc = "check" => (pc' = "read" /\ stop' = "" /\ stdout' = stdout)

\* C2: a non-blank line that does not parse as a command makes the loop call
\* no handler method, write exactly one Error response with an empty
\* request_id, and stay running, so that the next line is read and dispatched.
C2_MalformedInput == [][C2_ParseErrorStep]_vars

C2_Witness ==
    /\ lineNo = 2 /\ pc = "check" /\ wr = "ok"
    /\ Parsed.ok /\ Parsed.cmd.variant = "GetStatus"
    /\ Len(calls) = 1 /\ calls[1].method = "get_status"
    /\ Len(LoopDocs) = 2
    /\ LoopDocs[1].type = "error" /\ LoopDocs[1].request_id = "" /\ LoopDocs[1].n = 1
    /\ LoopDocs[2].type = "game_status" /\ LoopDocs[2].request_id = "r1"

\* The number of ShutdownComplete lines the loop has written.
ShutdownCompleteCount ==
    Len(SelectSeq(LoopDocs, LAMBDA t : t.type = "shutdown_complete"))

\* What the loop does with a Shutdown command, and once it has stopped.
C3_ShutdownStep ==
    /\ (Answering /\ Parsed.ok /\ Parsed.cmd.variant = "Shutdown") =>
          /\ response.variant = "ShutdownComplete"
          /\ (pc = "check" /\ LoopStep) => (pc' = "stopped" /\ stop' = "shutdown")
    /\ (pc' = "stopped" /\ stop' = "shutdown") =>
          /\ response'.variant = "ShutdownComplete"
          /\ wr' # "none"
          /\ ShutdownCompleteCount' = (IF wr' = "ok" THEN 1 ELSE 0)
          /\ (wr' = "ok" => stdout'[Len(stdout') - 1].type = "shutdown_complete")
    /\ pc = "stopped" =>
          /\ UNCHANGED <<pc, stop, lineNo, line, hres, response, wr, calls, stdout>>

\* C3: a Shutdown command is answered by exactly one ShutdownComplete (one
\* write of it, which puts one line on the output unless the pipe is broken),
\* and once the loop has stopped it reads no line, calls no handler method
\* and writes nothing, whatever input remains.
C3_Terminality == [][C3_ShutdownStep]_vars

C3_Witness ==
    /\ pc = "stopped" /\ stop = "shutdown" /\ wr = "ok"
    /\ lineNo = 1 /\ lineNo < MaxLines
    /\ Len(calls) = 1 /\ calls[1].method = "shutdown"
    /\ ShutdownCompleteCount = 1
    /\ pipe = "open"

\* Producer p holds STDOUT_LOCK: it is between lock() and the drop of the guard.
InSection(p) == epc[p] \in {"write", "flush", "unlock"}

\* Producer p has made its writeln call.
Written(p) == epc[p] \in {"flush", "unlock", "done"}

\* The stream split by newline: every line holds exactly one whole document.
WellFramed(out) ==
    /\ Len(out) % 2 = 0
    /\ \A i \in 1..Len(out) : out[i].tok = (IF i % 2 = 1 THEN "doc" ELSE "nl")

DocsOfProducer(p) == SelectSeq(EmitDocs, LAMBDA t : t.n = p)

\* C4: with N producers calling emit_match_data concurrently, at most one is
\* inside the section guarded by STDOUT_LOCK, and the output split by newline
\* holds whole documents only, one per call: N lines once the N calls returned.
C4_AtomicEmission ==
    /\ Cardinality({p \in Producers : InSection(p)}) <= 1
    /\ \A p \in Producers : InSection(p) <=> lock = p
    /\ WellFramed(stdout)
    /\ \A p \in Producers : Len(DocsOfProducer(p)) <= 1
    /\ pipe = "open" =>
         /\ \A p \in Producers : Written(p) <=> Len(DocsOfProducer(p)) = 1
         /\ (\A p \in Producers : epc[p] = "done") => Len(stdout) = 2 * NumProducers

C4_Witness ==
    /\ \A p \in Producers : epc[p] = "done"
    /\ pipe = "open"
    /\ Len(EmitDocs) = NumProducers
    /\ EmitDocs[1].n = NumProducers
    /\ \A i \in 1..Len(EmitDocs) : EmitDocs[i].type = "write_match_data"

C6_Original ==
    pc = "stopped" =>
        \/ /\ Parsed.ok /\ Parsed.cmd.variant = "Shutdown"
           /\ response.variant = "ShutdownComplete" /\ wr = "ok"
        \/ stop = "eof"

\* The steps that take the loop from running to stopped.
C6_StopStep ==
    (pc # "stopped" /\ pc' = "stopped") =>
        IF pc = "check"
        THEN /\ Parsed.ok /\ Parsed.cmd.variant = "Shutdown"
             /\ response.variant = "ShutdownComplete"
             /\ wr \in {"ok", "err"}
             /\ stop' = "shutdown"
        ELSE /\ pc = "read"
             /\ IF lineNo' = lineNo
                THEN stop' = "eof"
                ELSE line'.k = "nonutf8" /\ stop' = "read_error"

\* C6: the loop goes from Running to Stopped only when a Shutdown command
\* was dispatched and the write of its ShutdownComplete was attempted
\* (whether or not that write succeeded), when the input stream closed, or
\* when reading a line failed.
C6_StopConditions == [][C6_StopStep]_vars

C6_Witness ==
    /\ pc = "stopped" /\ stop = "shutdown" /\ wr = "err"
    /\ Parsed.ok /\ Parsed.cmd.variant = "Shutdown"
    /\ ShutdownCompleteCount = 0

\* What the loop does with a parsed command other than Shutdown.
C7_Step ==
    (pc \in {"dispatch", "write", "flush", "check"} /\ Parsed.ok
        /\ Parsed.cmd.variant # "Shutdown") =>
        /\ Answering =>
             /\ response.variant # "ShutdownComplete"
             /\ (Parsed.cmd.variant = "Init" /\ ~hres.ok) =>
                   /\ response.variant = "Error"
                   /\ response.request_id = line.o["request_id"].s
                   /\ response.message = hres.message
        /\ LoopStep =>
             /\ pc' # "stopped" /\ stop' = ""
             /\ pc = "dispatch" => pc' = "write"
             /\ pc = "check" => pc' = "read"

\* C7: every command other than Shutdown leaves the loop running; an Init
\* whose handler call fails is answered with an Error carrying the command's
\* request_id, and the loop goes on to read the next line.
C7_NonShutdownContinues == [][C7_Step]_vars

C7_Witness ==
    /\ lineNo = 2 /\ pc = "dispatch" /\ stop = ""
    /\ Len(calls) = 1 /\ calls[1].method = "init"
    /\ Len(LoopDocs) = 1
    /\ LoopDocs[1].type = "error" /\ LoopDocs[1].request_id = "r2" /\ LoopDocs[1].n = 1

\* C8 as stated: for each parsed command, of every variant, dispatch makes
\* exactly one handler call.
C8_Original ==
    [][(pc = "dispatch" /\ Parsed.ok /\ LoopStep) => Len(calls') = Len(calls) + 1]_vars

\* The documents of the loop appear in the order of their input lines.
LoopDocsInOrder ==
    \A i, j \in 1..Len(LoopDocs) : i < j => LoopDocs[i].n < LoopDocs[j].n

\* C9 as stated: each parsed command gets exactly one response, written and
\* flushed before the next line is read, and the responses appear in the
\* order of the commands.
C9_Original ==
    /\ (pc = "check" /\ Parsed.ok) =>
          /\ response.variant \in ResponseVariants
          /\ wr # "none"
          /\ (wr = "ok" => Len(DocsOfLine(lineNo)) = 1)
    /\ (pc \in {"read", "dispatch", "write"}) => Len(DocsOfLine(lineNo)) = 0
    /\ \A n \in 1..MaxLines : Len(DocsOfLine(n)) <= 1
    /\ LoopDocsInOrder

\* C10: on Init success the Initialized response carries the handler's
\* game_id and slug; its protocol_version is the handler's when that is
\* greater than 0 and PROTOCOL_VERSION (1) when it is 0, and so never 0.
C10_InitVersion ==
    (Answering /\ Parsed.ok /\ Parsed.cmd.variant = "Init" /\ hres.ok) =>
        /\ response.variant = "Initialized"
        /\ response.game_id = hres.game_id
        /\ response.slug = hres.slug
        /\ response.protocol_version =
             (IF hres.protocol_version > 0 THEN hres.protocol_version ELSE 1)
        /\ PROTOCOL_VERSION = 1
        /\ response.protocol_version # 0

C10_Witness ==
    /\ pc = "check" /\ wr = "ok"
    /\ Parsed.ok /\ Parsed.cmd.variant = "Init" /\ hres.ok
    /\ hres.protocol_version = 0 /\ hres.game_id = 99
    /\ response.variant = "Initialized"
    /\ response.protocol_version = 1 /\ response.game_id = 99

\* C11: when the handler's init fails, the response to Init is an Error whose
\* message and optional code are exactly those of the handler's error and
\* whose request_id is the Init command's.
C11_InitError ==
    (Answering /\ Parsed.ok /\ Parsed.cmd.variant = "Init" /\ ~hres.ok) =>
        /\ response.variant = "Error"
        /\ response.request_id = line.o["request_id"].s
        /\ response.message = hres.message
        /\ response.code = hres.code
        /\ calls[Len(calls)].method = "init"

C11_Witness ==
    /\ pc = "check" /\ wr = "ok"
    /\ Parsed.ok /\ Parsed.cmd.variant = "Init" /\ ~hres.ok
    /\ hres.message = "no client" /\ hres.code = Some("E_INIT")
    /\ response.variant = "Error" /\ response.request_id = "r2"
    /\ response.message = "no client" /\ response.code = Some("E_INIT")
    /\ DocsOfLine(lineNo)[1].type = "error"

\* What the Dispatch step does with a GetMatchTimeline command.
C12_Step ==
    (pc = "dispatch" /\ Parsed.ok /\ Parsed.cmd.variant = "GetMatchTimeline"
        /\ LoopStep) =>
        /\ calls' = calls
        /\ hres' = NoResult
        /\ response' = [variant |-> "MatchTimeline",
                        request_id |-> line.o["request_id"].s,
                        found |-> FALSE, entries |-> << >>]

\* C12: GetMatchTimeline is answered by the engine itself with MatchTimeline
\* found = false and entries = [], whatever its subpack, external_match_id,
\* entry_types and limit and whatever came before, and no handler method is
\* called for it.
C12_TimelineUnconditional == [][C12_Step]_vars

C12_Witness ==
    /\ pc = "check" /\ wr = "ok" /\ lineNo = 2
    /\ Parsed.ok /\ Parsed.cmd.variant = "GetMatchTimeline"
    /\ Parsed.cmd.subpack = 1 /\ Parsed.cmd.limit = Some(10)
    /\ Parsed.cmd.entry_types # None
    /\ Len(calls) = 1 /\ calls[1].method = "poll_events"
    /\ response.variant = "MatchTimeline" /\ response.found = FALSE
    /\ response.entries = << >>
    /\ DocsOfLine(2)[1].type = "match_timeline"

\* C13 as stated: a GetSampleMatchData command is dispatched to
\* get_sample_match_data(subpack) and answered with a SampleMatchData
\* carrying the command's request_id and subpack.
C13_Original ==
    (Answering /\ Parsed.ok /\ Parsed.cmd.variant = "GetSampleMatchData") =>
        /\ response.variant = "SampleMatchData"
        /\ response.request_id = line.o["request_id"].s
        /\ Len(calls) > 0 /\ calls[Len(calls)].method = "get_sample_match_data"

\* C14: a handler that does not override is_match_in_progress answers every
\* IsMatchInProgress, whatever the subpack and match id, with
\* MatchInProgressStatus still_playing = false and set_complete = None; for a
\* handler that overrides it the response copies the handler's still_playing
\* and set_complete.
C14_InProgressDefault ==
    (Answering /\ Parsed.ok /\ Parsed.cmd.variant = "IsMatchInProgress") =>
        /\ response.variant = "MatchInProgressStatus"
        /\ response.request_id = line.o["request_id"].s
        /\ calls[Len(calls)] = Call("is_match_in_progress", line.o["subpack"].n,
                                    line.o["external_match_id"].s, Null)
        /\ ~hres.overrides =>
              (response.still_playing = FALSE /\ response.set_complete = None)
        /\ hres.overrides =>
              /\ response.still_playing = hres.still_playing
              /\ response.set_complete = hres.set_complete

C14_Witness ==
    /\ pc = "check" /\ wr = "ok" /\ lineNo = 2
    /\ Parsed.ok /\ Parsed.cmd.variant = "IsMatchInProgress"
    /\ Parsed.cmd.subpack = 255 /\ ~hres.overrides
    /\ response.still_playing = FALSE /\ response.set_complete = None
    /\ Len(calls) = 2 /\ calls[1].method = "is_match_in_progress"
    /\ DocsOfLine(1)[1].type = "match_in_progress_status"

\* What a read of a blank line does.
C15_Step ==
    (pc = "read" /\ lineNo' = lineNo + 1 /\ trim_is_empty(line')) =>
        /\ calls' = calls /\ stdout' = stdout
        /\ pc' = "read" /\ stop' = "" /\ wr' = "none"

\* C15: a blank input line (empty or whitespace only) is skipped silently:
\* the loop calls no handler method, writes nothing, stays running and goes
\* on to read the next line.
C15_BlankSkipped == [][C15_Step]_vars

C15_Witness ==
    /\ lineNo = 1 /\ lineNo < MaxLines /\ line.k = "spaces"
    /\ pc = "read" /\ stop = ""
    /\ calls = << >> /\ stdout = << >>

\* The members of each response variant that are an Option.
OptionalMembers(v) ==
    CASE v = "GameStatus" -> {"game_phase"}
      [] v = "LiveData" -> {"data"}
      [] v = "SessionStarted" -> {"context"}
      [] v = "SessionEnded" -> {"match_data"}
      [] v = "Error" -> {"code"}
      [] v = "EventIconResolved" -> {"icon_url"}
      [] v = "MatchInProgressStatus" -> {"set_complete"}
      [] OTHER -> {}

\* C16 as stated: in the object written for a response, every optional
\* member that is absent is omitted and none is written as null; get_status
\* "r1" against connected = true, connection_status = "Connected",
\* game_phase = None, is_in_game = false writes exactly the members type,
\* request_id, connected, connection_status, is_in_game.
C16_Original ==
    (pc \in {"flush", "check"} /\ wr = "ok") =>
        /\ \A f \in OptionalMembers(response.variant) :
              response[f] = None => f \notin Members(to_json(response))
        /\ (/\ response.variant = "GameStatus" /\ response.request_id = "r1"
            /\ response.connected /\ response.connection_status = "Connected"
            /\ response.game_phase = None /\ ~response.is_in_game) =>
              Members(to_json(response)) =
                {"type", "request_id", "connected", "connection_status", "is_in_game"}

\* The names of the optional members of the commands, the messages and the
\* events.
OptionalNames ==
    {"entry_types", "limit", "played_at", "final_stats", "pre_capture_secs",
     "post_capture_secs"}

\* The line l without its optional members that are null.
LineWithoutNulls(l) ==
    Json([f \in {f \in DOMAIN l.o : ~(f \in OptionalNames /\ l.o[f].t = "null")} |->
            l.o[f]])

\* The document t without its optional members that are null.
DocWithoutNulls(t) ==
    [p \in {p \in DOMAIN t : ~(/\ Len(p) > 0 /\ p[Len(p)] \in OptionalNames
                                /\ t[p].t = "null")} |-> t[p]]

\* C17: on the read side, a line or document that gives an optional member
\* as null parses, without error, to the same value as the one that omits
\* it, and that value has the member absent.
C17_NullAsOmitted ==
    (codec.st = "parsed" /\ codec.op \in {"line", "document"}) =>
        /\ codec.back.ok
        /\ codec.op = "line" =>
              /\ from_str(LineWithoutNulls(codec.text)).ok
              /\ codec.back.v = from_str(LineWithoutNulls(codec.text)).cmd
              /\ \A f \in {"entry_types", "limit"} :
                    (f \notin DOMAIN codec.text.o \/ codec.text.o[f].t = "null")
                       => codec.back.v[f] = None
        /\ codec.op = "document" =>
              /\ codec.back = parse_message(DocWithoutNulls(codec.text))
              /\ \A f \in {"played_at", "final_stats"} :
                    Kind(codec.text, f) \in {"absent", "null"} => codec.back.v[f] = None
              /\ \A i \in 1..Len(codec.back.v.events) :
                    Kind(Sub(Sub(codec.text, "events"), Index(i)), "pre_capture_secs")
                        \in {"absent", "null"}
                      => codec.back.v.events[i].pre_capture_secs = None

C17_Witness ==
    /\ codec.st = "parsed" /\ codec.op = "document"
    /\ Kind(codec.text, "final_stats") = "null"
    /\ codec.back.ok /\ codec.back.v.variant = "SetComplete"
    /\ codec.back.v.final_stats = None
    /\ codec.back.v = set_complete(0, "m1", "Api")

\* An f64 that JSON cannot carry.
NotFinite(x) == x.nan

\* An event one of whose f64 members is not finite.
EventNotFinite(e) ==
    \/ NotFinite(e.timestamp_secs)
    \/ \E x \in e.pre_capture_secs \cup e.post_capture_secs : NotFinite(x)

\* A message one of whose f64 members is not finite.
MessageNotFinite(m) ==
    \/ m.variant = "WriteStatistics" /\ NotFinite(m.game_time_secs)
    \/ \E i \in 1..Len(m.events) : EventNotFinite(m.events[i])
    \/ \E i \in 1..Len(m.moments) : NotFinite(m.moments[i].game_time_secs)

\* A response one of whose f64 members is not finite.
ResponseNotFinite(r) ==
    CASE r.variant = "Events" -> \E i \in 1..Len(r.events) : EventNotFinite(r.events[i])
      [] r.variant = "MatchTimeline" ->
           \E i \in 1..Len(r.entries) : NotFinite(r.entries[i].game_time_secs)
      [] r.variant = "WriteMatchData" -> MessageNotFinite(r.message)
      [] r.variant = "MatchInProgressStatus" ->
           \E m \in r.set_complete : MessageNotFinite(m)
      [] OTHER -> FALSE

\* A response whose optional payload is present and is the JSON value null.
PayloadIsNull(r) ==
    \/ r.variant = "LiveData" /\ r.data = Some(Leaf(Null))
    \/ r.variant = "SessionStarted" /\ r.context = Some(Leaf(Null))
    \/ r.variant = "SessionEnded" /\ r.match_data = Some(Leaf(Null))

\* The codec has taken a value through serialization and parsing.
RoundTripped == codec.st = "parsed" /\ codec.op \in {"command", "response", "message"}

\* C18 as stated: for every value x of every Command, Response and
\* MatchDataMessage variant, parse(serialize(x)) equals x.
C18_Original ==
    RoundTripped => (codec.back.ok /\ codec.back.v = codec.x)

\* C18: parse(serialize(x)) equals x for every value x of every Command,
\* Response and MatchDataMessage variant whose f64 members are finite and
\* whose optional serde_json::Value payload, when present, is not null,
\* with optional members absent or present.  A non-finite f64 is written as
\* null, which does not parse back; a present null payload is written as
\* null, which parses back as an absent payload.
C18_RoundTrip ==
    RoundTripped =>
        /\ codec.op = "command" => (codec.back.ok /\ codec.back.v = codec.x)
        /\ codec.op = "message" =>
              IF MessageNotFinite(codec.x) THEN ~codec.back.ok
              ELSE codec.back.ok /\ codec.back.v = codec.x
        /\ codec.op = "response" =>
              IF ResponseNotFinite(codec.x) THEN ~codec.back.ok
              ELSE IF PayloadIsNull(codec.x)
              THEN /\ codec.back.ok /\ codec.back.v # codec.x
                   /\ codec.back.v.variant = codec.x.variant
              ELSE codec.back.ok /\ codec.back.v = codec.x

C18_Witness ==
    /\ RoundTripped /\ codec.op = "response"
    /\ codec.x.variant = "MatchInProgressStatus"
    /\ codec.x.set_complete =
          Some(set_complete_with_stats(0, "m1", "Api", Leaf(Obj("{\"kills\":10}"))))
    /\ Kind(codec.text, "set_complete") = "obj"
    /\ codec.text[<<"set_complete", "final_stats">>] = Obj("{\"kills\":10}")
    /\ codec.back = Ok(codec.x)

\* A text with every letter lowered.
Lowered(text) == [i \in DOMAIN text |-> to_ascii_lowercase(text[i])]

\* The canonical text of each variant, as the specification lists them.
Canonical(variant) ==
    CASE variant = "Event" -> "event"
      [] variant = "Statistic" -> "statistic"
      [] variant = "Moment" -> "moment"
      [] variant = "Api" -> "api"
      [] variant = "LiveFallback" -> "live_fallback"

\* C19: each value of EntryType and SummarySource has one canonical text
\* (event, statistic, moment; api, live_fallback), lower-case with
\* underscores, which Display and JSON both write, which differs from the
\* text of every other value of the enum, which from_str and the JSON
\* reader take back to the value, and every upper- and lower-case writing
\* of which from_str takes to the value.
C19_TextForm ==
    /\ (codec.op \in {"display", "json"} /\ codec.st # "idle") =>
          /\ Text(codec.text.chars) = Canonical(codec.x.variant)
          /\ codec.text.chars = enum_to_string(codec.x.variant)
          /\ codec.text.chars = enum_to_json(codec.x.variant)
          /\ Text(codec.text.chars) =
                (IF codec.x.enum = "EntryType" THEN EntryTypeName(codec.x.variant)
                 ELSE SummarySourceName(codec.x.variant))
          /\ \A c \in DOMAIN codec.text.chars :
                is_lowercase(codec.text.chars[c]) \/ codec.text.chars[c] = "_"
          /\ \A w \in EnumVariants(codec.x.enum) \ {codec.x.variant} :
                enum_to_string(w) # codec.text.chars
          /\ codec.st = "parsed" =>
                (codec.back.ok /\ codec.back.v = codec.x.variant)
    /\ (codec.op = "text" /\ codec.st = "parsed") =>
          \A v \in EnumVariants(codec.text.enum) :
              Text(Lowered(codec.text.chars)) = Canonical(v) =>
                  (codec.back.ok /\ codec.back.v = v)

C19_Witness ==
    /\ codec.op = "text" /\ codec.st = "parsed"
    /\ codec.text = [enum |-> "EntryType", chars |-> <<"E", "V", "E", "N", "T">>]
    /\ codec.back = Ok("Event")

\* The loop is past a response it made and did not write.
Dropped == pc = "check" /\ wr = "none" /\ response # NoResponse

\* A step that serializes in vain writes nothing and stops nothing, and the
\* loop goes on from a dropped response as from a written one.
C20_Step ==
    /\ (pc = "write" /\ pc' # pc /\ wr' = wr /\ response # NoResponse) =>
          (stdout' = stdout /\ stop' = stop /\ Dropped')
    /\ Dropped => DocsOfLine(lineNo) = << >>
    /\ (Dropped /\ pc' # pc) =>
          IF response.variant = "ShutdownComplete"
          THEN pc' = "stopped" /\ stop' = "shutdown"
          ELSE pc' = "read" /\ stop' = stop /\ stdout' = stdout
    /\ \A p \in Producers :
          (epc[p] = "idle" /\ epc'[p] = "done") =>
              (stdout' = stdout /\ lock' = lock /\ pc' = pc /\ stop' = stop)

\* C20: a response or message whose serialization fails is dropped: the
\* step writes nothing to the output (no part of a line, in the loop and in
\* emit_match_data, which does not even take the lock), gives the loop no
\* reason to stop, and the loop goes on from its shutdown check to read the
\* next line (it stops only if the response was ShutdownComplete, as after
\* a written one).
C20_DroppedSilently == [][C20_Step]_vars

C20_Witness ==
    /\ Dropped /\ response.variant = "GameStatus" /\ stop = ""
    /\ lineNo < MaxLines
    /\ \E p \in Producers : epc[p] = "done" /\ DocsOfProducer(p) = << >>

\* The documents on the output, in order.
OutDocs == SelectSeq(stdout, LAMBDA t : t.tok = "doc")

\* C21: every document an emit_match_data call writes is a WriteMatchData,
\* and request_id() of the response it wraps is the empty string; the loop
\* never makes or writes a WriteMatchData, whatever the command and the
\* handler's result (a fact of dispatch_command alone, stated where nothing
\* has been read or written yet).
C21_Separated ==
    /\ \A i \in DOMAIN OutDocs :
          /\ OutDocs[i].src = "emit" <=> OutDocs[i].type = ResponseTag("WriteMatchData")
          /\ OutDocs[i].src = "emit" => OutDocs[i].request_id = ""
    /\ \A p \in Producers :
          epc[p] # "idle" =>
            response_request_id([variant |-> "WriteMatchData", message |-> emsg[p]]) = ""
    /\ response.variant # "WriteMatchData"
    /\ (lineNo = 0 /\ stdout = << >>) =>
          \A l \in ValidLines : \A h \in HandlerResults(from_str(l).cmd) :
              dispatch_command(from_str(l).cmd, h).response.variant # "WriteMatchData"

\* WriteMatchData documents before and after a response of the loop.
C21_Witness ==
    \E i, j, k \in DOMAIN OutDocs :
        /\ i < j /\ j < k
        /\ OutDocs[i].src = "emit" /\ OutDocs[i].type = "write_match_data"
        /\ OutDocs[j].src = "loop" /\ OutDocs[j].type = "game_status"
        /\ OutDocs[k].src = "emit" /\ OutDocs[k].type = "write_match_data"

\* The calls of handler method m made so far, in order.
CallsOf(m) == SelectSeq(calls, LAMBDA c : c.method = m)

\* The ShutdownComplete documents on the output.
ShutdownDocs == SelectSeq(LoopDocs, LAMBDA t : t.type = ResponseTag("ShutdownComplete"))

\* C22: shutdown() is called at most once; while the loop holds the answer
\* to a Shutdown command, written or not yet, the call has been made exactly
\* once and the answer is ShutdownComplete with the command's request_id; a
\* ShutdownComplete on the output has the call behind it and that request_id.
C22_CleanupFirst ==
    /\ Len(CallsOf("shutdown")) <= 1
    /\ Len(ShutdownDocs) <= Len(CallsOf("shutdown"))
    /\ (Answering /\ Parsed.ok /\ Parsed.cmd.variant = "Shutdown") =>
          /\ Len(CallsOf("shutdown")) = 1
          /\ response = [variant |-> "ShutdownComplete",
                          request_id |-> line.o["request_id"].s]
          /\ pc = "write" => ShutdownDocs = << >>
    /\ \A i \in DOMAIN ShutdownDocs :
          /\ ShutdownDocs[i].n = lineNo
          /\ ShutdownDocs[i].request_id = line.o["request_id"].s

C22_Witness ==
    /\ pc = "stopped" /\ stop = "shutdown"
    /\ Len(ShutdownDocs) = 1 /\ ShutdownDocs[1].request_id = "r2"
    /\ Len(CallsOf("shutdown")) = 1
    /\ calls[Len(calls)].method = "shutdown"

\* The last handler call made.
LastCall == calls[Len(calls)]

\* The documents written for the current line.
LineDocs == DocsOfLine(lineNo)

\* C23: the answer to SessionStart is a SessionStarted with exactly the
\* context on_session_start returned (absent when it returned none); the
\* one call made for SessionEnd is on_session_end with exactly the context
\* of the command; the answer to SessionEnd is a SessionEnded with the
\* serialized MatchData when the handler returned one, with no match_data
\* when it returned none, and with the default payload (null) when the
\* MatchData did not serialize; the line written is of the same variant.
C23_SessionContext ==
    (Answering /\ Parsed.ok) =>
        /\ Parsed.cmd.variant = "SessionStart" =>
              /\ LastCall = Call("on_session_start", 0, "", Null)
              /\ response = [variant |-> "SessionStarted",
                              request_id |-> line.o["request_id"].s,
                              context |-> hres.context]
              /\ wr = "ok" => (Len(LineDocs) = 1 /\ LineDocs[1].type = "session_started")
        /\ Parsed.cmd.variant = "SessionEnd" =>
              /\ LastCall = Call("on_session_end", 0, "", line.o["context"])
              /\ response.variant = "SessionEnded"
              /\ response.request_id = line.o["request_id"].s
              /\ response.match_data =
                    (IF hres.match_data = None THEN None
                     ELSE IF "to_value" \in DOMAIN hres THEN Some(Leaf(Null))
                     ELSE Some(to_value(Unwrap(hres.match_data))))
              /\ wr = "ok" => (Len(LineDocs) = 1 /\ LineDocs[1].type = "session_ended")

\* A SessionEnd with an object for context, answered with the MatchData.
C23_Witness ==
    /\ Answering /\ Parsed.ok /\ Parsed.cmd.variant = "SessionEnd" /\ wr = "ok"
    /\ LastCall.v = Obj("{\"started\":true}")
    /\ hres.match_data # None /\ "to_value" \notin DOMAIN hres
    /\ response.match_data = Some(to_value(Unwrap(hres.match_data)))

\* C24: the answer to ResolveEventIcon(event_key) is an EventIconResolved
\* with the command's request_id, the requested key, and the icon_url that
\* the one call resolve_event_icon(event_key) returned; a handler that keeps
\* the default method gives an absent icon_url for every key.
C24_IconResolved ==
    (Answering /\ Parsed.ok /\ Parsed.cmd.variant = "ResolveEventIcon") =>
        /\ LastCall = Call("resolve_event_icon", 0, line.o["event_key"].s, Null)
        /\ response = [variant |-> "EventIconResolved",
                        request_id |-> line.o["request_id"].s,
                        event_key |-> line.o["event_key"].s,
                        icon_url |-> hres.icon_url]
        /\ ~hres.overrides => response.icon_url = None
        /\ wr = "ok" => (Len(LineDocs) = 1 /\ LineDocs[1].type = "event_icon_resolved")

C24_Witness ==
    /\ Answering /\ Parsed.ok /\ Parsed.cmd.variant = "ResolveEventIcon"
    /\ ~hres.overrides /\ wr = "ok"
    /\ response.event_key = "DragonKill" /\ response.icon_url = None

\* GameStatus values a handler may return: every combination of the two
\* flags with three connection texts and an absent, a named and an empty
\* phase.
AllStatuses ==
    [connected : BOOLEAN, connection_status : {"Connected", "Not connected", ""},
     game_phase : {None, Some("Lobby"), Some("")}, is_in_game : BOOLEAN]

\* The four fields of a GameStatus or of a GameStatus response.
StatusFields(r) ==
    <<r.connected, r.connection_status, r.game_phase, r.is_in_game>>

\* C25: the answer to GetStatus is a GameStatus whose connected,
\* connection_status, game_phase and is_in_game are the four fields that
\* the one call get_status() returned, in the loop and for every combination
\* of values (a fact of dispatch_command alone, stated where nothing has
\* been read yet), and the reader of the written line finds the same four.
C25_StatusVerbatim ==
    /\ (Answering /\ Parsed.ok /\ Parsed.cmd.variant = "GetStatus") =>
          /\ LastCall = Call("get_status", 0, "", Null)
          /\ response.variant = "GameStatus"
          /\ response.request_id = line.o["request_id"].s
          /\ StatusFields(response) = StatusFields(hres)
          /\ wr = "ok" => (Len(LineDocs) = 1 /\ LineDocs[1].type = "game_status")
    /\ (lineNo = 0 /\ stdout = << >>) =>
          \A l \in {l \in ValidLines : from_str(l).cmd.variant = "GetStatus"} :
            \A st \in AllStatuses :
              LET r == dispatch_command(from_str(l).cmd, st).response IN
                /\ r.variant = "GameStatus"
                /\ StatusFields(r) = StatusFields(st)
                /\ from_json(to_json(r)).ok
                /\ StatusFields(from_json(to_json(r)).v) = StatusFields(st)

C25_Witness ==
    /\ Answering /\ Parsed.ok /\ Parsed.cmd.variant = "GetStatus" /\ wr = "ok"
    /\ hres.connected /\ ~hres.is_in_game /\ hres.game_phase = Some("Lobby")
    /\ StatusFields(response) = <<TRUE, "Connected", Some("Lobby"), FALSE>>

\* C26: the answer to GetLiveData is a LiveData, never an Error, with the
\* data get_live_data() returned, None included; None is written as null
\* and an empty object as an object, and the reader of the written object
\* recovers which of the two the handler returned.
C26_LiveDataDistinct ==
    (Answering /\ Parsed.ok /\ Parsed.cmd.variant = "GetLiveData") =>
        /\ LastCall = Call("get_live_data", 0, "", Null)
        /\ response = [variant |-> "LiveData",
                        request_id |-> line.o["request_id"].s,
                        data |-> hres.data]
        /\ wr = "ok" => (Len(LineDocs) = 1 /\ LineDocs[1].type = "live_data")
        /\ hres.data = None => Kind(to_json(response), "data") = "null"
        /\ hres.data = Some(Leaf(Obj("{}"))) =>
              /\ Kind(to_json(response), "data") = "obj"
              /\ to_json(response) #
                    to_json([variant |-> "LiveData",
                             request_id |-> response.request_id, data |-> None])
        /\ from_json(to_json(response)).ok
        /\ from_json(to_json(response)).v.data = hres.data

C26_Witness ==
    /\ Answering /\ Parsed.ok /\ Parsed.cmd.variant = "GetLiveData" /\ wr = "ok"
    /\ hres.data = Some(Leaf(Obj("{}")))
    /\ from_json(to_json(response)).v.data = Some(Leaf(Obj("{}")))

\* The variants of the three tagged enumerations.
CommandVariantSet == {CommandVariants[i] : i \in DOMAIN CommandVariants}
MessageVariantSet == DOMAIN MessageTags

\* The discriminant serde derives for a variant: its identifier renamed.
Derived(variant) == Text(serde_snake_case(Ident(variant), 1))

\* A text of lower-case letters and underscores.
LowerWithUnderscores(chars) ==
    \A i \in DOMAIN chars : is_lowercase(chars[i]) \/ chars[i] = "_"

\* C27: the discriminant of every variant of Command, Response and
\* MatchDataMessage is its identifier in lower case with underscores, and
\* two variants of one enumeration never share one (facts of the types
\* alone, stated where nothing has been serialized yet); every object
\* written for a command, a response or a message has a string member
\* "type" holding the discriminant of its variant, a WriteMatchData's
\* message and a set_complete member included; every object accepted has a
\* "type" that alone names the variant it is read as.
C27_Discriminant ==
    /\ codec.st = "idle" =>
          /\ \A v \in CommandVariantSet :
                /\ CommandTag(v) = Derived(v)
                /\ LowerWithUnderscores(serde_snake_case(Ident(v), 1))
                /\ \A w \in CommandVariantSet \ {v} : CommandTag(w) # CommandTag(v)
          /\ \A v \in ResponseVariants :
                /\ ResponseTag(v) = Derived(v)
                /\ LowerWithUnderscores(serde_snake_case(Ident(v), 1))
                /\ \A w \in ResponseVariants \ {v} : ResponseTag(w) # ResponseTag(v)
          /\ \A v \in MessageVariantSet :
                /\ MessageTag(v) = Derived(v)
                /\ LowerWithUnderscores(serde_snake_case(Ident(v), 1))
                /\ \A w \in MessageVariantSet \ {v} : MessageTag(w) # MessageTag(v)
    /\ (codec.st # "idle" /\ codec.op = "command") =>
          codec.text.o["type"] = Str(CommandTag(codec.x.variant))
    /\ (codec.st # "idle" /\ codec.op = "response") =>
          /\ codec.text[<<"type">>] = Str(ResponseTag(codec.x.variant))
          /\ codec.x.variant = "WriteMatchData" =>
                codec.text[<<"message", "type">>] = Str(MessageTag(codec.x.message.variant))
          /\ (codec.x.variant = "MatchInProgressStatus" /\ codec.x.set_complete # None) =>
                codec.text[<<"set_complete", "type">>] =
                    Str(MessageTag(Unwrap(codec.x.set_complete).variant))
    /\ (codec.st # "idle" /\ codec.op = "message") =>
          codec.text[<<"type">>] = Str(MessageTag(codec.x.variant))
    /\ (codec.st = "parsed" /\ codec.back.ok) =>
          /\ codec.op \in {"command", "line"} =>
                /\ codec.text.o["type"].t = "str"
                /\ codec.back.v.variant = VariantOfTag(codec.text.o["type"].s)
          /\ codec.op = "response" =>
                /\ codec.text[<<"type">>].t = "str"
                /\ codec.back.v.variant = VariantOf(ResponseTags, codec.text[<<"type">>].s)
          /\ codec.op \in {"message", "document"} =>
                /\ codec.text[<<"type">>].t = "str"
                /\ codec.back.v.variant = VariantOf(MessageTags, codec.text[<<"type">>].s)

C27_Witness ==
    /\ codec.st = "parsed" /\ codec.op = "response" /\ codec.back.ok
    /\ codec.x.variant = "WriteMatchData"
    /\ codec.text[<<"type">>] = Str("write_match_data")
    /\ codec.text[<<"message", "type">>] = Str("write_statistics")
    /\ codec.back.v.variant = "WriteMatchData"

\* The response variant designated for each command that has an arm in
\* dispatch_command.
Designated(v) ==
    CASE v = "Init" -> "Initialized"
      [] v = "DetectRunning" -> "RunningStatus"
      [] v = "GetStatus" -> "GameStatus"
      [] v = "PollEvents" -> "Events"
      [] v = "GetLiveData" -> "LiveData"
      [] v = "SessionStart" -> "SessionStarted"
      [] v = "SessionEnd" -> "SessionEnded"
      [] v = "Shutdown" -> "ShutdownComplete"
      [] v = "ResolveEventIcon" -> "EventIconResolved"
      [] v = "IsMatchInProgress" -> "MatchInProgressStatus"
      [] v = "GetMatchTimeline" -> "MatchTimeline"

\* The line did not parse.
ParseFailed == ~Parsed.ok

\* The line is an Init and the handler's init() returned Err.
InitFailed == Parsed.ok /\ Parsed.cmd.variant = "Init" /\ ~hres.ok

\* C28: while the loop holds an answer, the answer is an Error exactly when
\* the line did not parse (the request_id is then empty) or the line is an
\* Init whose init() failed (the request_id is then the command's); every
\* other command with an arm is answered with its designated variant, a
\* PollEvents with an empty list included; an error document is on the
\* output for the line only in those two cases.
C28_ErrorCases ==
    Answering =>
        /\ response.variant = "Error" <=> (ParseFailed \/ InitFailed)
        /\ ParseFailed => response.request_id = ""
        /\ InitFailed => response.request_id = line.o["request_id"].s
        /\ (Parsed.ok /\ Parsed.cmd.variant # "GetSampleMatchData" /\ ~InitFailed) =>
              response.variant = Designated(Parsed.cmd.variant)
        /\ \A i \in DOMAIN LineDocs :
              /\ LineDocs[i].type = ResponseTag(response.variant)
              /\ LineDocs[i].type = "error" => (ParseFailed \/ InitFailed)

\* An empty list of events answered with Events.
C28_Witness ==
    /\ Answering /\ Parsed.ok /\ Parsed.cmd.variant = "PollEvents" /\ wr = "ok"
    /\ hres.events = << >>
    /\ response.variant = "Events" /\ response.events = << >>
    /\ Len(LineDocs) = 1 /\ LineDocs[1].type = "events"

\* The producers of the WriteMatchData documents on the output, in order.
EmitOrder == [i \in DOMAIN EmitDocs |-> EmitDocs[i].n]

\* The producers that acquired the lock and whose line reached the output,
\* in the order of acquisition.
AcquiredAndWritten == SelectSeq(acquired, LAMBDA p : DocsOfProducer(p) # << >>)

\* C29: the WriteMatchData lines are on the output in the order in which
\* their emit_match_data calls acquired STDOUT_LOCK (a call whose write
\* failed on a broken pipe has no line); a producer acquires the lock only
\* when no other holds it, and its line is on the output, if it is to be
\* there at all, before the next acquisition.
C29_LockOrder ==
    /\ EmitOrder = AcquiredAndWritten
    /\ \A i \in DOMAIN acquired :
          /\ epc[acquired[i]] \in {"write", "flush", "unlock", "done"}
          /\ i < Len(acquired) => epc[acquired[i]] = "done"
          /\ \A j \in DOMAIN acquired : acquired[i] = acquired[j] => i = j
    /\ \A p \in Producers :
          (DocsOfProducer(p) # << >>) => \E i \in DOMAIN acquired : acquired[i] = p

\* Two emitters, the second of which won the lock: its line is first.
C29_Witness ==
    /\ acquired = <<2, 1>>
    /\ EmitOrder = <<2, 1>>
    /\ epc[1] = "done" /\ epc[2] = "done"

\* The number of raw line breaks in a text.
RawNewlines(text) == Cardinality({i \in DOMAIN text : text[i] = "\n"})

\* The newline tokens on the output.
OutNewlines == SelectSeq(stdout, LAMBDA t : t.tok = "nl")

\* C30: the output is a sequence of lines, each one document followed by
\* one newline, as many lines as documents written; a writer whose
\* document is on the output is at its flush or past it; and the text of a
\* document has no raw line break: the writer escapes every line break (and
\* quote and backslash) inside a string, whatever the request_id, the
\* message and the code of an Error, and the reader gets the string back (a
\* fact of the writer alone, stated where nothing has been read or written
\* yet).
C30_OneLinePerMessage ==
    /\ WellFramed(stdout)
    /\ Len(OutNewlines) = Len(OutDocs)
    /\ Len(OutDocs) = Len(LoopDocs) + Len(EmitDocs)
    /\ \A n \in 1..lineNo : Len(DocsOfLine(n)) <= 1
    /\ Len(LineDocs) = 1 => (wr = "ok" /\ pc \notin {"dispatch", "write"})
    /\ \A p \in Producers :
          /\ Len(DocsOfProducer(p)) <= 1
          /\ Len(DocsOfProducer(p)) = 1 => epc[p] \in {"flush", "unlock", "done"}
    /\ (lineNo = 0 /\ stdout = << >>) =>
          \A t \in Texts :
            /\ RawNewlines(format_escaped_str(t)) = 0
            /\ parse_str(format_escaped_str(t)) = t
            /\ RawNewlines(write_object(error_members(<<"r", "1">>, t, t))) = 0
            /\ RawNewlines(write_object(error_members(t, <<"a">>, << >>))) = 0

\* The loop and an emitter have each written a line and are at their flush.
C30_Witness ==
    /\ pc = "flush" /\ wr = "ok" /\ Len(LineDocs) = 1
    /\ \E p \in Producers : epc[p] = "flush" /\ Len(DocsOfProducer(p)) = 1
    /\ Len(OutNewlines) = 2 /\ Len(OutDocs) = 2

\* The commands that carry a subpack.
SubpackVariants == {"IsMatchInProgress", "GetMatchTimeline", "GetSampleMatchData"}

\* The current line is an object of one of the commands that carry a
\* subpack, well formed but for the range of its subpack.
SubpackLine ==
    /\ line.k = "json"
    /\ HasStr(line.o, "type") /\ HasStr(line.o, "request_id")
    /\ VariantOfTag(line.o["type"].s) \in SubpackVariants
    /\ "subpack" \in DOMAIN line.o /\ line.o["subpack"].t = "num"
    /\ VariantOfTag(line.o["type"].s) # "GetSampleMatchData" =>
          HasStr(line.o, "external_match_id")

\* C31 as stated: a line whose subpack is outside 0..255 is answered with an
\* Error with an empty request_id and no handler call, and a subpack in
\* 0..255 is parsed unchanged and passed unchanged to the handler method of
\* its command (GetMatchTimeline has none).
C31_Original ==
    [][(pc = "dispatch" /\ SubpackLine /\ LoopStep) =>
         IF line.o["subpack"].n \in 0..255
         THEN /\ Parsed.ok
              /\ Parsed.cmd.subpack = line.o["subpack"].n
              /\ Parsed.cmd.variant # "GetMatchTimeline" =>
                    /\ Len(calls') = Len(calls) + 1
                    /\ calls'[Len(calls')].subpack = line.o["subpack"].n
         ELSE /\ ~Parsed.ok
              /\ calls' = calls
              /\ response' = error("", "Parse error")]_vars

\* What the loop does when the read of a line fails, and after it.
C32_Step ==
    /\ (pc = "read" /\ lineNo' = lineNo + 1 /\ line'.k = "nonutf8") =>
          /\ pc' = "stopped" /\ stop' = "read_error"
          /\ response' = NoResponse /\ hres' = NoResult /\ wr' = "none"
          /\ calls' = calls /\ stdout' = stdout
    /\ stop = "read_error" =>
          /\ pc = "stopped" /\ line.k = "nonutf8"
          /\ pc' = pc /\ stop' = stop
          /\ lineNo' = lineNo /\ line' = line
          /\ calls' = calls /\ stdout' = stdout

\* C32: when the read of an input line fails, run_gamepack stops at once: it
\* writes no Error response for that line, calls no handler method, and reads
\* none of the lines that follow.
C32_ReadErrorStops == [][C32_Step]_vars

C32_Witness ==
    /\ pc = "stopped" /\ stop = "read_error"
    /\ lineNo = 1 /\ lineNo < MaxLines /\ line.k = "nonutf8"
    /\ calls = << >> /\ stdout = << >>
    /\ response = NoResponse

\* A Shutdown command has been dispatched.
ShutdownDispatched ==
    /\ pc \in {"write", "flush", "check", "stopped"}
    /\ Parsed.ok /\ Parsed.cmd.variant = "Shutdown"

\* C33: shutdown() has been called if and only if a Shutdown command was
\* dispatched; when the loop has stopped because the input closed or a read
\* failed, shutdown() has not been called and no ShutdownComplete is on the
\* output.
C33_ShutdownOnlyOnCommand ==
    /\ (CallsOf("shutdown") # << >>) <=> ShutdownDispatched
    /\ stop \in {"eof", "read_error"} =>
          /\ pc = "stopped"
          /\ CallsOf("shutdown") = << >>
          /\ ShutdownDocs = << >>
    /\ stop = "shutdown" => ShutdownDispatched

C33_Witness ==
    /\ pc = "stopped" /\ stop = "eof"
    /\ lineNo = 1 /\ Parsed.ok /\ Parsed.cmd.variant = "SessionStart"
    /\ Len(calls) = 1 /\ calls[1].method = "on_session_start"
    /\ Len(LoopDocs) = 1
    /\ CallsOf("shutdown") = << >> /\ ShutdownDocs = << >>

\* The response run_gamepack makes for line l when the handler returns h to
\* the call made for it: nothing else enters.
ResponseOf(l, h) ==
    IF from_str(l).ok
    THEN dispatch_command(from_str(l).cmd, h).response
    ELSE parse_error_response(l)

\* C34: the response to a line is a function of the line and of what the
\* handler returned for it, whatever was dispatched before, so two runs with
\* the same line and the same handler result have the same response; and a
\* command that parses is answered with an Error only when it is an Init for
\* which init() failed, whatever its place in the sequence.
C34_Stateless ==
    Answering =>
        /\ response = ResponseOf(line, hres)
        /\ (Parsed.ok /\ response # NoResponse /\ response.variant = "Error") =>
              (Parsed.cmd.variant = "Init" /\ ~hres.ok)

C34_Witness ==
    /\ pc = "check" /\ wr = "ok" /\ lineNo = 2
    /\ Len(LoopDocs) = 2
    /\ LoopDocs[1].type = "session_ended" /\ LoopDocs[1].request_id = "r1"
    /\ Parsed.ok /\ Parsed.cmd.variant = "PollEvents" /\ Parsed.cmd.request_id = "r1"
    /\ response.variant = "Events" /\ response.request_id = "r1"
    /\ CallsOf("init") = << >> /\ CallsOf("on_session_start") = << >>
    /\ Len(calls) = 2

\* The mutex is held only by a producer that is between its lock() and the
\* end of emit_match_data.
HeldInsideEmit ==
    /\ lock # 0 => epc[lock] \in {"write", "flush", "unlock"}
    /\ \A p \in Producers : epc[p] \in {"write", "flush", "unlock"} => lock = p

\* The emit_match_data call of producer p is under way.
InEmit(p) == epc[p] \in {"lock", "write", "flush", "unlock"}

\* C35: STDOUT_LOCK is held only inside emit_match_data and is free again
\* when the call is over, whether the write succeeded or failed, and a call
\* whose serialization failed never takes it; so under fair scheduling every
\* emit_match_data call of every producer eventually returns.
C35_EmitReturns ==
    /\ []HeldInsideEmit
    /\ \A p \in Producers : InEmit(p) ~> (epc[p] = "done" /\ lock # p)

C35_Witness ==
    /\ pipe = "broken" /\ stdout = << >>
    /\ epc[1] = "done" /\ epc[2] = "done" /\ lock = 0
    /\ acquired = <<2>>

\* The WriteMatchData documents written by handler methods, in order.
HandlerDocs == SelectSeq(stdout, LAMBDA t : t.tok = "doc" /\ t.src = "handler")

\* The positions on the output of the documents written from source src
\* while line n was being processed.
PositionsOf(src, n) ==
    { i \in DOMAIN stdout :
        stdout[i].tok = "doc" /\ stdout[i].src = src /\ stdout[i].n = n }

\* The thread of run_gamepack is inside an emit_match_data call.
HandlerInEmit == pc \in {"h_lock", "h_write", "h_flush", "h_unlock"}

\* What holds of the mutex and of the output while and after a handler
\* method emits.
C36_Safe ==
    /\ lock = MainThread <=> pc \in {"h_write", "h_flush", "h_unlock"}
    /\ (pc = "h_lock" /\ lock # 0) =>
          (lock \in Producers /\ epc[lock] \in {"write", "flush", "unlock"})
    /\ pc = "h_return" =>
          /\ PositionsOf("handler", lineNo) # {}
          /\ PositionsOf("loop", lineNo) = {}
    /\ \A n \in 1..lineNo :
          \A i \in PositionsOf("handler", n), j \in PositionsOf("loop", n) : i < j
    /\ \A i \in DOMAIN HandlerDocs : HandlerDocs[i].type = "write_match_data"

\* C36: a handler method may call emit_match_data while its command is
\* dispatched: the thread of the loop does not hold STDOUT_LOCK when the
\* call starts, so the call waits only for producers that are about to
\* release it and always returns, and the WriteMatchData line is on the
\* output before the response to the command.
C36_HandlerEmits ==
    /\ []C36_Safe
    /\ HandlerInEmit ~> (pc = "h_return" /\ lock # MainThread)

C36_Witness ==
    /\ pc = "check" /\ wr = "ok" /\ lineNo = 1
    /\ Parsed.ok /\ Parsed.cmd.variant = "DetectRunning"
    /\ response.variant = "RunningStatus"
    /\ Len(stdout) = 6
    /\ stdout[1].src = "emit"
    /\ stdout[3].src = "handler" /\ stdout[3].n = 1
    /\ stdout[5].src = "loop" /\ stdout[5].n = 1 /\ stdout[5].type = "running_status"
    /\ acquired = <<1, MainThread>>

\* run_gamepack has returned.
LoopStopped == pc = "stopped"

\* Once run_gamepack has returned, a producer that has not called yet can
\* call emit_match_data, and the mutex is not held by the loop's thread.
C37_Open ==
    LoopStopped =>
        /\ lock # MainThread
        /\ \A p \in Producers :
              /\ epc[p] = "idle" => ENABLED EmitCall(p, CoreMessages)
              /\ (epc[p] = "lock" /\ lock = 0) => ENABLED EmitLock(p)

\* C37: stopping the loop does not close the emission path: after
\* run_gamepack has returned, on Shutdown or on end of input, a producer can
\* still call emit_match_data, and a call that waits for STDOUT_LOCK then
\* still acquires it, writes its line and returns, so WriteMatchData lines
\* follow ShutdownComplete on the output.
C37_EmitAfterStop ==
    /\ []C37_Open
    /\ \A p \in Producers :
          (LoopStopped /\ epc[p] = "lock") ~>
              (LoopStopped /\ epc[p] = "done" /\ Len(DocsOfProducer(p)) = 1)

C37_Witness ==
    /\ LoopStopped /\ stop = "shutdown" /\ lineNo = 1
    /\ Len(stdout) = 4
    /\ stdout[1].src = "loop" /\ stdout[1].type = "shutdown_complete"
    /\ stdout[3].src = "emit" /\ stdout[3].type = "write_match_data"
    /\ epc[stdout[3].n] = "done"
    /\ \E p \in Producers : epc[p] = "idle"

====
